---- MODULE Spec2Model ----
(***************************************************************************)
(* Model of the ml-orchestrator flow execution engine:                     *)
(*   core/flow_executor.py  FlowExecutor (planner, engine, worker pool)    *)
(*   core/step_executor.py  StepExecutor.execute_step (control flow)       *)
(*   core/models.py         StepResult, ExecutionContext                   *)
(* One flow run: execute_flow(steps, context) on a fresh context.          *)
(***************************************************************************)
EXTENDS Integers, Sequences, FiniteSets, TLC

\* ---------------------------------------------------------------- bounds
\* longest step list given to execute_flow
MaxSteps == 3
\* longest run of adjacent steps carrying one tag (largest parallel group)
MaxRun == 2
\* largest configured FlowExecutor.max_workers
MaxWorkers == 2

\* ------------------------------------------------------------ data model
\* FlowStep.parallel_group is Optional[str]: None, or a string (maybe empty)
NoTag == "None"
TagValues == {NoTag, "", "x", "y"}

\* config/settings.py StepStatus
SUCCESS == "success"
FAILED == "failed"
SKIPPED == "skipped"
CRITICAL_ERROR == "critical_error"
StepStatus == {SUCCESS, FAILED, SKIPPED, CRITICAL_ERROR}

\* FlowStep: the name is the step's position in the flow (unique per flow)
FlowStep(name, tag) == [name |-> name, parallel_group |-> tag]

\* StepResult: duration is "measured" (time.time() difference) or "zero" (0.0)
StepResult(step_name, status, duration) ==
    [step_name |-> step_name, status |-> status, duration |-> duration]

\* every step list of length 0..MaxSteps over the tag values
FlowsOfLen(n) == {[i \in 1..n |-> FlowStep(i, f[i])] : f \in [1..n -> TagValues]}
\* no more than MaxRun adjacent steps share a truthy tag
RunsBounded(f) ==
    \A i \in 1..(Len(f) - MaxRun) :
        ~(\A j \in i..(i + MaxRun) :
              /\ f[j].parallel_group # NoTag /\ f[j].parallel_group # ""
              /\ f[j].parallel_group = f[i].parallel_group)
AllFlows == {f \in UNION {FlowsOfLen(n) : n \in 0..MaxSteps} : RunsBounded(f)}

Min(a, b) == IF a <= b THEN a ELSE b

\* mutant: `is not None` instead of truthiness ("" counts as a tag)
TruthyNotNone(tag) == tag # NoTag

\* Python truthiness of step.parallel_group: None and "" are falsy
Truthy(tag) == tag # NoTag /\ tag # ""

\* --------------------------------------------------------------- planner
\* mutant: the open group is never appended to groups
FlushGroupNever(groups, current_group) == groups

\* `if current_group: groups.append(current_group)`
FlushGroup(groups, current_group) ==
    IF current_group # <<>> THEN Append(groups, current_group) ELSE groups

\* the for loop of _group_steps_by_parallelism and its final flush
RECURSIVE GroupLoop(_, _, _, _, _)
GroupLoop(stepList, i, groups, current_group, current_parallel_group) ==
    IF i > Len(stepList)
    THEN FlushGroup(groups, current_group)
    ELSE LET step == stepList[i] IN
         IF Truthy(step.parallel_group)
         THEN IF step.parallel_group = current_parallel_group
              THEN GroupLoop(stepList, i + 1, groups,
                             Append(current_group, step), current_parallel_group)
              ELSE GroupLoop(stepList, i + 1, FlushGroup(groups, current_group),
                             <<step>>, step.parallel_group)
         ELSE GroupLoop(stepList, i + 1,
                        Append(FlushGroup(groups, current_group), <<step>>),
                        <<>>,
                        IF current_group # <<>> THEN NoTag
                                                ELSE current_parallel_group)

\* mutant: an untagged step is emitted without closing the open group, so a
\* later step with the open tag joins the steps before the untagged one
RECURSIVE GroupLoopKeepsOpen(_, _, _, _, _)
GroupLoopKeepsOpen(stepList, i, groups, current_group, current_parallel_group) ==
    IF i > Len(stepList)
    THEN FlushGroup(groups, current_group)
    ELSE LET step == stepList[i] IN
         IF Truthy(step.parallel_group)
         THEN IF step.parallel_group = current_parallel_group
              THEN GroupLoopKeepsOpen(stepList, i + 1, groups,
                             Append(current_group, step), current_parallel_group)
              ELSE GroupLoopKeepsOpen(stepList, i + 1,
                             FlushGroup(groups, current_group),
                             <<step>>, step.parallel_group)
         ELSE GroupLoopKeepsOpen(stepList, i + 1, Append(groups, <<step>>),
                             current_group, current_parallel_group)
group_steps_keeping_open(stepList) ==
    GroupLoopKeepsOpen(stepList, 1, <<>>, <<>>, NoTag)

group_steps_by_parallelism(stepList) == GroupLoop(stepList, 1, <<>>, <<>>, NoTag)

\* ----------------------------------------------------------- step runner
\* The path one call of execute_step takes, decided by its environment:
\*   log_fault    the start log (lines 47-55, before the try) raises
\*   skip         a skip rule matches
\*   no_url       step.get_url() is empty
\*   prep_fault   payload/header construction or a log inside the try raises
\*   http_ok      transport returns a 2xx response
\*   http_non2xx  transport returns a non-2xx response
\*   http_error   transport returns status 0 with an error text
\*   http_raise   the transport call raises
Scenarios == {"log_fault", "skip", "no_url", "prep_fault",
              "http_ok", "http_non2xx", "http_error", "http_raise"}

\* what execute_step hands back: a StepResult, or an exception (raised)
Returned(step, status) ==
    [raised |-> FALSE, step_name |-> step.name, status |-> status,
     duration |-> "measured"]
Raised(step) ==
    [raised |-> TRUE, step_name |-> step.name, status |-> "exception",
     duration |-> "none"]

execute_step(step, scn) ==
    CASE scn = "log_fault"   -> Raised(step)
      [] scn = "skip"        -> Returned(step, SKIPPED)
      [] scn = "no_url"      -> Returned(step, SKIPPED)
      [] scn = "prep_fault"  -> Returned(step, CRITICAL_ERROR)
      [] scn = "http_ok"     -> Returned(step, SUCCESS)
      [] scn = "http_non2xx" -> Returned(step, FAILED)
      [] scn = "http_error"  -> Returned(step, FAILED)
      [] scn = "http_raise"  -> Returned(step, CRITICAL_ERROR)

\* ---------------------------------------------------------------- engine
VARIABLES
    steps,          \* argument of execute_flow
    max_workers,    \* FlowExecutor.max_workers
    pc,             \* position of the engine thread in execute_flow
    step_groups,    \* local step_groups of execute_flow
    group_index,    \* 1-based index of the group being processed
    results,        \* local results of execute_flow
    ctx_results,    \* context.results
    group_results,  \* local results of _execute_parallel_steps / group_results
    submitted,      \* number of steps of the group given to executor.submit
    pool_size,      \* max_workers of the live ThreadPoolExecutor, 0 if none
    queue,          \* work queue of the pool: submitted, not yet started
    running,        \* names of the steps inside execute_step right now
    done,           \* finished futures not yet yielded by as_completed
    appended,       \* number of group_results already added to the context
    dispatched,     \* history: names of the steps execute_step was called for
    runner,         \* one call of execute_step followed line by line
    call,           \* one call of a helper: its arguments and its value
    handler         \* the OrchestratorHandler: its tracker, the clock, its last call

vars == <<steps, max_workers, pc, step_groups, group_index, results,
          ctx_results, group_results, submitted, pool_size, queue, running,
          done, appended, dispatched, runner, call, handler>>

\* no call of a helper is being followed
NoCall == [fn |-> "none"]

\* no OrchestratorHandler is being followed
NoHandler == [now |-> 0]

\* no call of execute_step is being followed
IdleRunner == [pc |-> "idle"]

Init ==
    /\ steps \in AllFlows
    /\ max_workers \in 1..MaxWorkers
    /\ pc = "planned"
    /\ step_groups = <<>>
    /\ group_index = 1
    /\ results = <<>>
    /\ ctx_results = <<>>
    /\ group_results = <<>>
    /\ submitted = 0
    /\ pool_size = 0
    /\ queue = <<>>
    /\ running = {}
    /\ done = {}
    /\ appended = 0
    /\ dispatched = <<>>
    /\ runner = IdleRunner
    /\ call = NoCall
    /\ handler = NoHandler

group == step_groups[group_index]

\* mutant: only the first result of the group is inspected
HasCriticalFirstOnly(rs) == Len(rs) > 0 /\ rs[1].status = CRITICAL_ERROR

\* mutant: a FAILED result aborts too
HasCriticalOrFailed(rs) ==
    \E i \in 1..Len(rs) : rs[i].status \in {CRITICAL_ERROR, FAILED}

\* any(r.status == CRITICAL_ERROR for r in rs)
HasCritical(rs) == \E i \in 1..Len(rs) : rs[i].status = CRITICAL_ERROR

\* mutant: one thread per step, max_workers ignored
PoolSizeUnbounded(n, mw) == n

\* ThreadPoolExecutor(max_workers=min(len(steps), self.max_workers))
PoolSize(n, mw) == Min(n, mw)

\* lines 53-63: plan the groups, results = []
Plan ==
    /\ pc = "planned"
    /\ step_groups' = group_steps_by_parallelism(steps)
    /\ group_index' = 1
    /\ pc' = "loop"
    /\ UNCHANGED <<handler, call, runner, pool_size, steps, max_workers, results, ctx_results, group_results,
                   submitted, queue, running, done, appended, dispatched>>

\* line 66 exhausted, lines 109-118: return results
Complete ==
    /\ pc = "loop"
    /\ group_index > Len(step_groups)
    /\ pc' = "completed"
    /\ UNCHANGED <<handler, call, runner, pool_size, steps, max_workers, step_groups, group_index, results,
                   ctx_results, group_results, submitted, queue, running,
                   done, appended, dispatched>>

\* lines 75-77: singleton group, execute_step is entered on the engine thread
SingleStart ==
    /\ pc = "loop"
    /\ group_index <= Len(step_groups)
    /\ Len(group) = 1
    /\ running' = running \cup {group[1].name}
    /\ dispatched' = Append(dispatched, group[1].name)
    /\ pc' = "single"
    /\ UNCHANGED <<handler, call, runner, pool_size, steps, max_workers, step_groups, group_index, results,
                   ctx_results, group_results, submitted, queue, done,
                   appended>>

\* lines 77-79: execute_step returns (append to results and to the context)
\* or raises (nothing catches it: execute_flow raises)
SingleFinish ==
    /\ pc = "single"
    /\ \E scn \in Scenarios :
         LET out == execute_step(group[1], scn) IN
         IF out.raised
         THEN /\ pc' = "raised"
              /\ UNCHANGED <<results, ctx_results, group_results>>
         ELSE LET result == StepResult(out.step_name, out.status, out.duration) IN
              /\ results' = Append(results, result)
              /\ ctx_results' = Append(ctx_results, result)
              /\ group_results' = <<result>>
              /\ pc' = "check"
    /\ running' = running \ {group[1].name}
    /\ UNCHANGED <<handler, call, runner, pool_size, steps, max_workers, step_groups, group_index, submitted,
                   queue, done, appended, dispatched>>

\* lines 92, 204-206: enter _execute_parallel_steps, create the pool
ParallelStart ==
    /\ pc = "loop"
    /\ group_index <= Len(step_groups)
    /\ Len(group) > 1
    /\ group_results' = <<>>
    /\ submitted' = 0
    /\ pool_size' = PoolSize(Len(group), max_workers)
    /\ pc' = "submit"
    /\ UNCHANGED <<handler, call, runner, steps, max_workers, step_groups, group_index, results,
                   ctx_results, queue, running, done, appended, dispatched>>

\* lines 208-211: executor.submit for the next step of the group
Submit ==
    /\ pc = "submit"
    /\ submitted < Len(group)
    /\ queue' = Append(queue, group[submitted + 1])
    /\ submitted' = submitted + 1
    /\ pc' = IF submitted + 1 = Len(group) THEN "collect" ELSE "submit"
    /\ UNCHANGED <<handler, call, runner, pool_size, steps, max_workers, step_groups, group_index, results,
                   ctx_results, group_results, running, done, appended,
                   dispatched>>

\* a pool thread takes the oldest work item and enters execute_step; the pool
\* never has more than pool_size threads
WorkerStart ==
    /\ queue # <<>>
    /\ Cardinality(running) < pool_size
    /\ running' = running \cup {Head(queue).name}
    /\ dispatched' = Append(dispatched, Head(queue).name)
    /\ queue' = Tail(queue)
    /\ UNCHANGED <<handler, call, runner, pool_size, steps, max_workers, pc, step_groups, group_index, results,
                   ctx_results, group_results, submitted, done, appended>>

\* mutant: the worker itself appends its result to the context
WorkerFinishAppends ==
    /\ pc # "single"
    /\ \E name \in running : \E scn \in Scenarios :
         LET out == execute_step(steps[name], scn) IN
         /\ running' = running \ {name}
         /\ done' = done \cup {out}
         /\ ctx_results' = IF out.raised THEN ctx_results
                           ELSE Append(ctx_results,
                                  StepResult(out.step_name, out.status, out.duration))
    /\ UNCHANGED <<handler, call, runner, pool_size, steps, max_workers, pc, step_groups, group_index, results,
                   group_results, submitted, queue, appended, dispatched>>

\* execute_step ends in a pool thread: the future holds a result or an exception
WorkerFinish ==
    /\ pc # "single"
    /\ \E name \in running : \E scn \in Scenarios :
         /\ running' = running \ {name}
         /\ done' = done \cup {execute_step(steps[name], scn)}
    /\ UNCHANGED <<handler, call, runner, pool_size, steps, max_workers, pc, step_groups, group_index, results,
                   ctx_results, group_results, submitted, queue, appended,
                   dispatched>>

\* mutant: the exception of a finished future is raised again instead of
\* being turned into a result
CollectReraises ==
    /\ pc = "collect"
    /\ \E f \in done :
         /\ done' = done \ {f}
         /\ IF f.raised
            THEN pc' = "raised" /\ UNCHANGED group_results
            ELSE /\ pc' = pc
                 /\ group_results' = Append(group_results,
                      StepResult(f.step_name, f.status, f.duration))
    /\ UNCHANGED <<handler, call, runner, pool_size, steps, max_workers, step_groups, group_index, results,
                   ctx_results, submitted, queue, running, appended,
                   dispatched>>

\* mutant: a collected result goes to the context at once
CollectAppends ==
    /\ pc = "collect"
    /\ \E f \in done :
         LET result == IF f.raised
                       THEN StepResult(f.step_name, CRITICAL_ERROR, "zero")
                       ELSE StepResult(f.step_name, f.status, f.duration) IN
         /\ done' = done \ {f}
         /\ group_results' = Append(group_results, result)
         /\ ctx_results' = Append(ctx_results, result)
    /\ UNCHANGED <<handler, call, runner, pool_size, steps, max_workers, pc, step_groups, group_index, results,
                   submitted, queue, running, appended,
                   dispatched>>

\* lines 214-251: as_completed yields a finished future; its result, or a
\* synthetic CRITICAL_ERROR result for its exception, joins the group results
Collect ==
    /\ pc = "collect"
    /\ \E f \in done :
         /\ done' = done \ {f}
         /\ group_results' = Append(group_results,
              IF f.raised
              THEN StepResult(f.step_name, CRITICAL_ERROR, "zero")
              ELSE StepResult(f.step_name, f.status, f.duration))
    /\ UNCHANGED <<handler, call, runner, pool_size, steps, max_workers, pc, step_groups, group_index, results,
                   ctx_results, submitted, queue, running, appended,
                   dispatched>>

\* mutant: the group results are put in front of the earlier results
ParallelReturnPrepends ==
    /\ pc = "collect"
    /\ Len(group_results) = Len(group)
    /\ queue = <<>> /\ running = {}
    /\ results' = group_results \o results
    /\ appended' = 0
    /\ pool_size' = 0
    /\ pc' = "append"
    /\ UNCHANGED <<handler, call, runner, steps, max_workers, step_groups, group_index, ctx_results,
                   group_results, submitted, queue, running, done, dispatched>>

\* mutant: the group returns as soon as a collected result is critical
ParallelReturnOnCritical ==
    /\ pc = "collect"
    /\ Len(group_results) = Len(group) \/ HasCritical(group_results)
    /\ results' = results \o group_results
    /\ appended' = 0
    /\ pool_size' = 0
    /\ pc' = "append"
    /\ UNCHANGED <<handler, call, runner, steps, max_workers, step_groups, group_index, ctx_results,
                   group_results, submitted, queue, running, done, dispatched>>

\* mutant: the group returns after the first collected result
ParallelReturnFirstResult ==
    /\ pc = "collect"
    /\ Len(group_results) >= 1
    /\ results' = results \o group_results
    /\ appended' = 0
    /\ pool_size' = 0
    /\ pc' = "append"
    /\ UNCHANGED <<handler, call, runner, steps, max_workers, step_groups, group_index, ctx_results,
                   group_results, submitted, queue, running, done, dispatched>>

\* as_completed is exhausted, the pool shuts down (lines 206, 253-261);
\* line 93: results.extend(group_results)
ParallelReturn ==
    /\ pc = "collect"
    /\ Len(group_results) = Len(group)
    /\ queue = <<>> /\ running = {}
    /\ results' = results \o group_results
    /\ appended' = 0
    /\ pool_size' = 0
    /\ pc' = "append"
    /\ UNCHANGED <<handler, call, runner, steps, max_workers, step_groups, group_index, ctx_results,
                   group_results, submitted, queue, running, done, dispatched>>

\* mutant: the group results are added to the context last to first
AddResultReversed ==
    /\ pc = "append"
    /\ appended < Len(group_results)
    /\ ctx_results' = Append(ctx_results,
                              group_results[Len(group_results) - appended])
    /\ appended' = appended + 1
    /\ pc' = IF appended + 1 = Len(group_results) THEN "check" ELSE "append"
    /\ UNCHANGED <<handler, call, runner, pool_size, steps, max_workers, step_groups, group_index, results,
                   group_results, submitted, queue, running, done, dispatched>>

\* mutant: add_result overwrites the last entry of a non-empty list
AddResultLossy ==
    /\ pc = "append"
    /\ appended < Len(group_results)
    /\ ctx_results' =
         IF appended > 0
         THEN [ctx_results EXCEPT ![Len(ctx_results)] = group_results[appended + 1]]
         ELSE Append(ctx_results, group_results[appended + 1])
    /\ appended' = appended + 1
    /\ pc' = IF appended + 1 = Len(group_results) THEN "check" ELSE "append"
    /\ UNCHANGED <<handler, call, runner, pool_size, steps, max_workers, step_groups, group_index, results,
                   group_results, submitted, queue, running, done, dispatched>>

\* lines 96-97: context.add_result for the next group result
AddResult ==
    /\ pc = "append"
    /\ appended < Len(group_results)
    /\ ctx_results' = Append(ctx_results, group_results[appended + 1])
    /\ appended' = appended + 1
    /\ pc' = IF appended + 1 = Len(group_results) THEN "check" ELSE "append"
    /\ UNCHANGED <<handler, call, runner, pool_size, steps, max_workers, step_groups, group_index, results,
                   group_results, submitted, queue, running, done, dispatched>>

\* lines 82-89 and 100-107: break on a critical error
Abort ==
    /\ pc = "check"
    /\ HasCritical(group_results)
    /\ pc' = "aborted"
    /\ UNCHANGED <<handler, call, runner, pool_size, steps, max_workers, step_groups, group_index, results,
                   ctx_results, group_results, submitted, queue, running,
                   done, appended, dispatched>>

\* mutant: a group with a FAILED result is run again
NextGroupRetriesFailed ==
    /\ pc = "check"
    /\ ~HasCritical(group_results)
    /\ group_index' = IF \E i \in 1..Len(group_results) :
                          group_results[i].status = FAILED
                      THEN group_index
                      ELSE group_index + 1
    /\ pc' = "loop"
    /\ UNCHANGED <<handler, call, runner, pool_size, steps, max_workers, step_groups, results, ctx_results,
                   group_results, submitted, queue, running, done, appended,
                   dispatched>>

\* mutant: the loop goes on after a critical error in the last group
NextGroupPastCritical ==
    /\ pc = "check"
    /\ ~HasCritical(group_results) \/ group_index = Len(step_groups)
    /\ group_index' = group_index + 1
    /\ pc' = "loop"
    /\ UNCHANGED <<handler, call, runner, pool_size, steps, max_workers, step_groups, results, ctx_results,
                   group_results, submitted, queue, running, done, appended,
                   dispatched>>

\* mutant: the loop goes on whatever the results of the group
NextGroupUnchecked ==
    /\ pc = "check"
    /\ group_index' = group_index + 1
    /\ pc' = "loop"
    /\ UNCHANGED <<handler, call, runner, pool_size, steps, max_workers, step_groups, results, ctx_results,
                   group_results, submitted, queue, running, done, appended,
                   dispatched>>

\* no critical error: next iteration of the for loop
NextGroup ==
    /\ pc = "check"
    /\ ~HasCritical(group_results)
    /\ group_index' = group_index + 1
    /\ pc' = "loop"
    /\ UNCHANGED <<handler, call, runner, pool_size, steps, max_workers, step_groups, results, ctx_results,
                   group_results, submitted, queue, running, done, appended,
                   dispatched>>

Next ==
    \/ Plan
    \/ Complete
    \/ SingleStart
    \/ SingleFinish
    \/ ParallelStart
    \/ Submit
    \/ WorkerStart
    \/ WorkerFinish
    \/ Collect
    \/ ParallelReturn
    \/ AddResult
    \/ Abort
    \/ NextGroup

Spec == Init /\ [][Next]_vars

\* execute_flow runs on the calling thread and every worker of the pool is
\* scheduled: a step of the engine that can be taken is eventually taken
\* (every transport call returns, lines 110-117 of step_executor.py)
FairSpec == Spec /\ WF_vars(Next)

\* ----------------------------------------------------------- step runner
\* One call of execute_step, followed through its stages.

\* Config.STEPS: the catalog of steps with their parallel_group
STEPS ==
    [name \in {"create_embeddings", "match_candidato",
               "match_analysis_user_vacancy", "gap_analysis_user_vacancy",
               "suggest_course_vacancy", "match_usuario_profissao",
               "match_usuario_carreira", "match_analysis_user_profession",
               "gap_analysis_user_profession", "suggest_course_profession"} |->
        FlowStep(name,
            CASE name \in {"match_analysis_user_vacancy",
                           "suggest_course_vacancy"} -> "vacancy_parallel"
              [] name \in {"match_usuario_carreira",
                           "match_analysis_user_profession"} -> "profession_parallel"
              [] OTHER -> NoTag)]

\* Python's None as the value of an optional text or number
None == "None"

\* what request_data holds under one key: nothing (the key is absent), None,
\* an empty (falsy) value, or a non-empty value
Absent == "absent"
ParamValues == {Absent, None, "empty", "value"}

\* request_data.get(key)
Get(request_data, key) ==
    IF request_data[key] = Absent THEN None ELSE request_data[key]

\* bool(v) of a value read with get: None, the empty text and False are falsy
IsTruthy(v) == v \notin {None, "empty", "False"}

\* request_data: the keys the skip rules and the payload read
Requests ==
    [position_id : ParamValues, vacancy_id : ParamValues, career_name : ParamValues]

\* the requests one call of execute_step is followed with: a key is absent
\* or holds a non-empty value
StepRequests ==
    [position_id : {Absent, "value"}, vacancy_id : {Absent, "value"},
     career_name : {Absent, "value"}]

\* the results the context may hold when execute_step is called
EarlierResults == {<<>>, <<StepResult("create_embeddings", SUCCESS, "measured")>>}

\* os.getenv(step.url_env_var): None, the empty string, or an address
UrlValues == {"unset", "empty", "set"}

\* the stage of execute_step at which its environment makes a call raise
FaultPoints == {"none", "start_log", "skip_check", "resolve_url", "prepare", "post"}

\* what session.request does on the wire: the server answers with a status
\* code, or requests raises Timeout, ConnectionError or another
\* RequestException (whose response, if it has one, is a redirect)
WireOutcomes ==
    {[kind |-> "response", status_code |-> c] : c \in {200, 204, 302, 404, 500}}
    \cup {[kind |-> "Timeout", status_code |-> 0],
          [kind |-> "ConnectionError", status_code |-> 0]}
    \cup {[kind |-> "RequestException", status_code |-> c] : c \in {0, 302}}

\* the kinds of wire outcome that are faults of the transport
TransportFaults == {"Timeout", "ConnectionError", "RequestException"}

\* HttpResponse: the fields the step runner reads; raised marks a call of the
\* transport that ended in an exception instead
HttpResponse(status_code, error) ==
    [raised |-> FALSE, status_code |-> status_code, error |-> error]
\* an absent status code (None where a number is expected)
NoStatusCode == -1
NoResponse == [raised |-> FALSE, status_code |-> NoStatusCode, error |-> "no response"]
RaisedResponse == [raised |-> TRUE, status_code |-> NoStatusCode, error |-> "raised"]

\* mutant: every answer below 400 counts as success
is_success_below_400(response) == response.status_code < 400

\* HttpResponse.is_success
is_success(response) ==
    200 <= response.status_code /\ response.status_code < 300

\* mutant: a timeout is raised to the caller
execute_request_reraising(wire) ==
    CASE wire.kind = "response" -> HttpResponse(wire.status_code, None)
      [] wire.kind = "Timeout" -> RaisedResponse
      [] wire.kind = "ConnectionError" -> HttpResponse(0, "Connection error")
      [] wire.kind = "RequestException" ->
            HttpResponse(wire.status_code, "Request failed")

\* HttpClient._execute_request: the answer, or an error value for each
\* exception of requests
execute_request(wire) ==
    CASE wire.kind = "response" -> HttpResponse(wire.status_code, None)
      [] wire.kind = "Timeout" -> HttpResponse(0, "Request timeout")
      [] wire.kind = "ConnectionError" -> HttpResponse(0, "Connection error")
      [] wire.kind = "RequestException" ->
            HttpResponse(wire.status_code, "Request failed")


\* HttpResponse.is_client_error
is_client_error(response) ==
    400 <= response.status_code /\ response.status_code < 500

\* mutant: a redirect counts as a server error
is_server_error_or_redirect(response) ==
    300 <= response.status_code /\ response.status_code < 600

\* HttpResponse.is_server_error
is_server_error(response) ==
    500 <= response.status_code /\ response.status_code < 600

\* the loop of HttpClient.request from iteration `attempt` (counted from 0) on:
\* wires[attempt + 1] is what the wire does at that attempt; the value is the
\* response returned and the number of attempts made
RECURSIVE request_from(_, _, _)
request_from(wires, retry_count, attempt) ==
    LET response == execute_request(wires[attempt + 1]) IN
    IF response.raised \/ is_success(response) \/ is_client_error(response)
    THEN [response |-> response, attempts |-> attempt + 1]
    ELSE IF /\ attempt < retry_count
            /\ (is_server_error(response) \/ response.status_code = 0)
         THEN request_from(wires, retry_count, attempt + 1)
         ELSE [response |-> response, attempts |-> attempt + 1]

\* HttpClient.request with retry_count retries allowed
request(wires, retry_count) == request_from(wires, retry_count, 0)

\* StepExecutor.__init__ builds its HttpClient without retry_count: the default
step_retry_count == 0

\* mutant: match_usuario_carreira is skipped when either parameter is given
should_skip_step_either(step, request_data) ==
    \/ /\ step.name = "match_usuario_profissao"
       /\ IsTruthy(Get(request_data, "position_id"))
    \/ /\ step.name = "match_candidato"
       /\ IsTruthy(Get(request_data, "vacancy_id"))
    \/ /\ step.name = "match_usuario_carreira"
       /\ \/ IsTruthy(Get(request_data, "position_id"))
          \/ IsTruthy(Get(request_data, "career_name"))

\* FlowRouter.should_skip_step
should_skip_step(step, request_data) ==
    \/ /\ step.name = "match_usuario_profissao"
       /\ IsTruthy(Get(request_data, "position_id"))
    \/ /\ step.name = "match_candidato"
       /\ IsTruthy(Get(request_data, "vacancy_id"))
    \/ /\ step.name = "match_usuario_carreira"
       /\ IsTruthy(Get(request_data, "position_id"))
       /\ IsTruthy(Get(request_data, "career_name"))

\* the steps whose name contains "vacancy", and those whose name contains
\* "profession" or "carreira"
VacancySteps ==
    {"match_analysis_user_vacancy", "gap_analysis_user_vacancy",
     "suggest_course_vacancy"}
ProfessionSteps ==
    {"match_usuario_carreira", "match_analysis_user_profession",
     "gap_analysis_user_profession", "suggest_course_profession"}

\* StepExecutor._prepare_payload: the keys of the payload it builds, a new
\* mapping filled from the context
prepare_payload(step, request_data) ==
    IF step.name = "create_embeddings" THEN {"sessionId"}
    ELSE {"user_id"}
         \cup (IF step.name \in VacancySteps
               THEN {k \in {"vacancy_id"} : Get(request_data, k) # None}
               ELSE {})
         \cup (IF step.name \in ProfessionSteps
               THEN {k \in {"position_id", "career_name"} :
                       Get(request_data, k) # None}
               ELSE {})

NoResult == [raised |-> FALSE, step_name |-> "none", status |-> "none",
             duration |-> "none"]

\* a call of execute_step about to start, in every environment
InitStep ==
    /\ steps = <<>>
    /\ max_workers = 1
    /\ pc = "planned"
    /\ step_groups = <<>>
    /\ group_index = 1
    /\ ctx_results \in EarlierResults
    /\ results = ctx_results
    /\ group_results = <<>>
    /\ submitted = 0
    /\ pool_size = 0
    /\ queue = <<>>
    /\ running = {}
    /\ done = {}
    /\ appended = 0
    /\ dispatched = <<>>
    /\ \E name \in DOMAIN STEPS, request_data \in StepRequests, url \in UrlValues,
          fault_at \in FaultPoints, wire \in WireOutcomes :
         runner = [pc |-> "start_log", step |-> STEPS[name],
                   context |-> [execution_id |-> "e", user_id |-> "u",
                                session_id |-> "s", flow_name |-> "f"],
                   request_data |-> request_data, payload |-> {}, url |-> url,
                   fault_at |-> fault_at, wire |-> wire,
                   response |-> NoResponse,
                   visited |-> {}, http_calls |-> 0, result |-> NoResult,
                   error |-> None, status_code |-> NoStatusCode]
    /\ call = NoCall
    /\ handler = NoHandler

engine_vars == <<steps, max_workers, pc, step_groups, group_index, results,
                 ctx_results, group_results, submitted, pool_size, queue,
                 running, done, appended, dispatched>>

\* the call reaches stage `stage`
Enter(stage) ==
    /\ runner.pc = stage
    /\ UNCHANGED <<engine_vars, call, handler>>

\* StepResult.error on the paths that end without a response
ErrorOf(scn) ==
    CASE scn = "skip" -> "Skipped"
      [] scn = "no_url" -> "URL not configured"
      [] scn \in {"prep_fault", "http_raise"} -> "fault message"
      [] OTHER -> None

\* the call ends the way execute_step ends on path scn, its result carrying
\* error and status_code
LeaveWith(stage, scn, calls, error, status_code) ==
    LET result == execute_step(runner.step, scn) IN
    runner' = [runner EXCEPT !.pc = IF result.raised THEN "raised" ELSE "returned",
                             !.visited = @ \cup {stage},
                             !.http_calls = @ + calls,
                             !.result = result,
                             !.error = IF result.raised THEN None ELSE error,
                             !.status_code = IF result.raised THEN NoStatusCode
                                             ELSE status_code]

\* the call ends without a response
Leave(stage, scn, calls) ==
    LeaveWith(stage, scn, calls, ErrorOf(scn), NoStatusCode)

\* the call goes on to stage next
Goto(stage, next, calls) ==
    runner' = [runner EXCEPT !.pc = next,
                             !.visited = @ \cup {stage},
                             !.http_calls = @ + calls]

\* lines 47-55: the start log, before the try
StepStart ==
    /\ Enter("start_log")
    /\ IF runner.fault_at = "start_log"
       THEN Leave("start_log", "log_fault", 0)
       ELSE Goto("start_log", "skip_check", 0)

\* mutant: the skip rules are not consulted
SkipCheckIgnored ==
    /\ Enter("skip_check")
    /\ IF runner.fault_at = "skip_check"
       THEN Leave("skip_check", "prep_fault", 0)
       ELSE Goto("skip_check", "resolve_url", 0)

\* lines 57-75 (and the handler of lines 152-175): the skip check
SkipCheck ==
    /\ Enter("skip_check")
    /\ IF runner.fault_at = "skip_check"
       THEN Leave("skip_check", "prep_fault", 0)
       ELSE IF should_skip_step(runner.step, runner.request_data)
            THEN Leave("skip_check", "skip", 0)
            ELSE Goto("skip_check", "resolve_url", 0)

\* mutant: the address is used without looking at it
ResolveUrlUnchecked ==
    /\ Enter("resolve_url")
    /\ IF runner.fault_at = "resolve_url"
       THEN Leave("resolve_url", "prep_fault", 0)
       ELSE Goto("resolve_url", "prepare", 0)

\* lines 77-94 (and 152-175): step.get_url() and the `if not url` return
ResolveUrl ==
    /\ Enter("resolve_url")
    /\ IF runner.fault_at = "resolve_url"
       THEN Leave("resolve_url", "prep_fault", 0)
       ELSE IF runner.url \in {"unset", "empty"}
            THEN Leave("resolve_url", "no_url", 0)
            ELSE Goto("resolve_url", "prepare", 0)

\* lines 96-108 (and 152-175): payload, headers and the debug log
Prepare ==
    /\ Enter("prepare")
    /\ IF runner.fault_at = "prepare"
       THEN Leave("prepare", "prep_fault", 0)
       ELSE runner' = [runner EXCEPT
                         !.pc = "post",
                         !.visited = @ \cup {"prepare"},
                         !.payload = prepare_payload(runner.step,
                                                     runner.request_data)]

\* line 127: f"HTTP {response.status_code}"
HttpErrorText(status_code) ==
    CASE status_code = 0 -> "HTTP 0"
      [] status_code = 302 -> "HTTP 302"
      [] status_code = 404 -> "HTTP 404"
      [] status_code = 500 -> "HTTP 500"
      [] OTHER -> "HTTP 2xx"

\* lines 110-117 (and 152-175): the transport call; an exception that is not
\* one of requests (fault_at = "post") or that the transport lets through
\* reaches the handler of execute_step
Post ==
    /\ Enter("post")
    /\ LET response == request(<<runner.wire>>, step_retry_count).response IN
       IF runner.fault_at = "post" \/ response.raised
       THEN Leave("post", "http_raise", 1)
       ELSE runner' = [runner EXCEPT !.pc = "classify",
                                     !.visited = @ \cup {"post"},
                                     !.http_calls = @ + 1,
                                     !.response = response]

\* mutant: the step runner appends its result to the context itself
ClassifyRecordsResult ==
    /\ runner.pc = "classify"
    /\ LET result == execute_step(runner.step,
                        IF is_success(runner.response) THEN "http_ok"
                        ELSE "http_non2xx") IN
       /\ runner' = [runner EXCEPT !.pc = "returned",
                                   !.visited = @ \cup {"classify"},
                                   !.result = result]
       /\ ctx_results' = Append(ctx_results,
                            StepResult(result.step_name, result.status,
                                       result.duration))
    /\ UNCHANGED <<steps, max_workers, pc, step_groups, group_index, results,
                   group_results, submitted, pool_size, queue, running, done,
                   appended, dispatched, call, handler>>

\* lines 119-150: the response becomes SUCCESS or FAILED
Classify ==
    /\ Enter("classify")
    /\ LET response == runner.response IN
       IF is_success(response)
       THEN LeaveWith("classify", "http_ok", 0, None, response.status_code)
       ELSE LeaveWith("classify",
                      IF response.error = None THEN "http_non2xx" ELSE "http_error",
                      0,
                      IF response.error # None THEN response.error
                      ELSE HttpErrorText(response.status_code),
                      response.status_code)

NextStep ==
    \/ StepStart
    \/ SkipCheck
    \/ ResolveUrl
    \/ Prepare
    \/ Post
    \/ Classify

SpecStep == InitStep /\ [][NextStep]_vars

\* --------------------------------------------------------------- helpers
\* One call of a helper function of the runner, the router, the catalog or
\* the handler: its arguments are drawn in the initial state, Apply... gives
\* the value the code computes.

\* neither the engine nor a call of execute_step is running
EngineIdle ==
    /\ steps = <<>>
    /\ max_workers = 1
    /\ pc = "planned"
    /\ step_groups = <<>>
    /\ group_index = 1
    /\ results = <<>>
    /\ ctx_results = <<>>
    /\ group_results = <<>>
    /\ submitted = 0
    /\ pool_size = 0
    /\ queue = <<>>
    /\ running = {}
    /\ done = {}
    /\ appended = 0
    /\ dispatched = <<>>
    /\ runner = IdleRunner

\* the calls of should_skip_step: every step of the catalog, every request
SkipCalls ==
    {[fn |-> "should_skip_step", step |-> STEPS[name],
      request_data |-> request_data, applied |-> FALSE, value |-> FALSE] :
        name \in DOMAIN STEPS, request_data \in Requests}

\* step_executor.py line 59: should_skip_step is applied
ApplySkip ==
    /\ call.fn = "should_skip_step"
    /\ ~call.applied
    /\ call' = [call EXCEPT !.applied = TRUE,
                            !.value = should_skip_step(call.step,
                                                       call.request_data)]
    /\ UNCHANGED <<engine_vars, runner, handler>>

\* the most keys holding anything in a request drawn for _prepare_headers
MaxTokens == 2
\* largest retry_count of an HttpClient
MaxRetry == 2
\* number of times the clock of the handler advances
MaxTicks == 5

\* f"{step.name}_token"
TokenKey(step) == step.name \o "_token"

\* the generic credential keys of the two step classes, in priority order
VacancyTokenKeys ==
    <<"match_candidato_token", "match_analysis_user_vacancy_token",
      "gap_analysis_user_vacancy_token", "suggest_course_vacancy_token">>
ProfessionTokenKeys ==
    <<"match_user_profession_token", "match_user_career_token",
      "match_analysis_user_profession_token",
      "gap_analysis_user_profession_token", "suggest_course_profession_token">>

\* every key _prepare_headers may read
TokenKeys ==
    {TokenKey(STEPS[name]) : name \in DOMAIN STEPS}
    \cup {VacancyTokenKeys[i] : i \in 1..Len(VacancyTokenKeys)}
    \cup {ProfessionTokenKeys[i] : i \in 1..Len(ProfessionTokenKeys)}

\* request_data restricted to the credential keys: at most MaxTokens keys are
\* present, each holding None, an empty text, or a token (named after its key)
TokenRequests ==
    UNION {{[k \in TokenKeys |->
               IF k \in present
               THEN (IF held[k] = "token" THEN k ELSE held[k])
               ELSE Absent] :
              held \in [present -> {None, "empty", "token"}]} :
           present \in {P \in SUBSET TokenKeys : Cardinality(P) <= MaxTokens}}

\* the generic list of the step's class
GenericKeys(step) ==
    IF step.name \in VacancySteps THEN VacancyTokenKeys
    ELSE IF step.name \in ProfessionSteps THEN ProfessionTokenKeys
    ELSE <<>>

\* lines 252-256 and 259-264: the for loop with its break
RECURSIVE FirstPresent(_, _, _, _)
FirstPresent(keys, request_data, i, token) ==
    IF i > Len(keys) THEN token
    ELSE IF request_data[keys[i]] # Absent
         THEN Get(request_data, keys[i])
         ELSE FirstPresent(keys, request_data, i + 1, token)

\* mutant: the generic list is consulted before the step's own key
prepare_headers_generic_first(step, request_data) ==
    LET generic == FirstPresent(GenericKeys(step), request_data, 1, None)
        token == IF IsTruthy(generic) THEN generic
                 ELSE Get(request_data, TokenKey(step))
    IN IF IsTruthy(token) THEN "Bearer " \o token ELSE Absent

\* StepExecutor._prepare_headers: the Authorization header, Absent if none
prepare_headers(step, request_data) ==
    LET own == Get(request_data, TokenKey(step))
        token == IF IsTruthy(own) THEN own
                 ELSE FirstPresent(GenericKeys(step), request_data, 1, own)
    IN IF IsTruthy(token) THEN "Bearer " \o token ELSE Absent

\* the calls of _prepare_headers
HeaderCalls ==
    {[fn |-> "prepare_headers", step |-> STEPS[name],
      request_data |-> request_data, applied |-> FALSE, value |-> Absent] :
        name \in DOMAIN STEPS, request_data \in TokenRequests}

\* step_executor.py line 98: _prepare_headers is applied
ApplyHeaders ==
    /\ call.fn = "prepare_headers"
    /\ ~call.applied
    /\ call' = [call EXCEPT !.applied = TRUE,
                            !.value = prepare_headers(call.step,
                                                      call.request_data)]
    /\ UNCHANGED <<engine_vars, runner, handler>>

\* Config.FLOWS: the steps of every flow of the catalog, by name
FLOWS ==
    [update_profile |->
        <<"create_embeddings", "match_usuario_profissao", "match_candidato",
          "match_usuario_carreira", "match_analysis_user_profession",
          "gap_analysis_user_profession", "suggest_course_profession",
          "match_analysis_user_vacancy", "gap_analysis_user_vacancy",
          "suggest_course_vacancy">>,
     first_login |->
        <<"match_usuario_profissao", "match_candidato",
          "match_usuario_carreira", "match_analysis_user_profession",
          "gap_analysis_user_profession", "suggest_course_profession",
          "match_analysis_user_vacancy", "gap_analysis_user_vacancy",
          "suggest_course_vacancy">>,
     course_to_profession |-> <<"suggest_course_profession">>,
     analysis_to_profession |->
        <<"match_analysis_user_profession", "gap_analysis_user_profession">>,
     course_to_vacancy |-> <<"suggest_course_vacancy">>,
     analysis_to_vacancy |->
        <<"match_analysis_user_vacancy", "gap_analysis_user_vacancy">>]

\* FlowDefinition.steps of a flow of the catalog
FlowSteps(flow_name) ==
    [i \in 1..Len(FLOWS[flow_name]) |-> STEPS[FLOWS[flow_name][i]]]

\* the calls of the planner on the flows of the catalog
PlanCalls ==
    {[fn |-> "group_steps_by_parallelism", flow_name |-> flow_name,
      steps |-> FlowSteps(flow_name), applied |-> FALSE, value |-> <<>>] :
        flow_name \in DOMAIN FLOWS}

\* flow_executor.py line 52: the planner is applied to the steps of a flow
ApplyPlan ==
    /\ call.fn = "group_steps_by_parallelism"
    /\ ~call.applied
    /\ call' = [call EXCEPT !.applied = TRUE,
                            !.value = group_steps_by_parallelism(call.steps)]
    /\ UNCHANGED <<engine_vars, runner, handler>>

\* the result lists execute_flow may hand to the handler
ResultLists ==
    UNION {{[i \in 1..n |-> StepResult(i, status[i], "measured")] :
              status \in [1..n -> StepStatus]} : n \in 0..MaxSteps}

\* what the final webhook does: no address configured, the call succeeds,
\* the call fails, or something in it raises
WebhookOutcomes == {"no_url", "success", "failed", "exception"}

\* mutant: a CRITICAL_ERROR is counted as a failure as well
CountStatusOrWorse(rs, status) ==
    Cardinality({i \in 1..Len(rs) :
        \/ rs[i].status = status
        \/ status = FAILED /\ rs[i].status = CRITICAL_ERROR})

\* number of results with a status
CountStatus(rs, status) ==
    Cardinality({i \in 1..Len(rs) : rs[i].status = status})

\* OrchestratorHandler._build_response: the summary, one entry per result and
\* the flag, a key that is there only when some result is a CRITICAL_ERROR
build_response(rs) ==
    [summary |-> [total_steps |-> Len(rs),
                  successful |-> CountStatus(rs, SUCCESS),
                  failed |-> CountStatus(rs, FAILED),
                  skipped |-> CountStatus(rs, SKIPPED),
                  critical_errors |-> CountStatus(rs, CRITICAL_ERROR)],
     steps |-> [i \in 1..Len(rs) |->
                  [step_name |-> rs[i].step_name, status |-> rs[i].status,
                   duration |-> rs[i].duration]],
     has_critical_errors |->
        IF \E i \in 1..Len(rs) : rs[i].status = CRITICAL_ERROR
        THEN "True" ELSE Absent]

\* mutant: an exception of the webhook call leaves _execute_webhook
execute_webhook_raising(outcome) ==
    IF outcome = "exception" THEN "raised" ELSE "returned"

\* OrchestratorHandler._execute_webhook: returns whatever the webhook does
\* (the exception is caught at lines 361-366)
execute_webhook(outcome) ==
    CASE outcome = "no_url" -> "returned"
      [] outcome = "success" -> "returned"
      [] outcome = "failed" -> "returned"
      [] outcome = "exception" -> "returned"

\* the calls of the handler's tail: execute_flow has returned results
HandleCalls ==
    {[fn |-> "handle_results", results |-> rs, webhook |-> webhook,
      applied |-> FALSE, value |-> [status_code |-> NoStatusCode]] :
        rs \in ResultLists, webhook \in WebhookOutcomes}

\* orchestrator_handler.py lines 115-152: the response is built from the
\* results, the webhook runs, and the response is returned with 200; an
\* exception on the way gives the error response with 500
ApplyHandle ==
    /\ call.fn = "handle_results"
    /\ ~call.applied
    /\ call' = [call EXCEPT
                  !.applied = TRUE,
                  !.value =
                     IF execute_webhook(call.webhook) = "raised"
                     THEN [status_code |-> 500,
                           body |-> [error |-> "Internal server error"]]
                     ELSE [status_code |-> 200,
                           body |-> build_response(call.results)]]
    /\ UNCHANGED <<engine_vars, runner, handler>>


\* the calls of HttpClient.request: a client allowing up to MaxRetry retries
\* and, for every attempt it may make, what the wire does then
RequestCalls ==
    UNION {{[fn |-> "request", retry_count |-> retry_count, wires |-> wires,
             applied |-> FALSE,
             value |-> [response |-> NoResponse, attempts |-> 0]] :
              wires \in [1..retry_count + 1 -> WireOutcomes]} :
           retry_count \in 0..MaxRetry}

\* http_client.py lines 213-254: HttpClient.request is applied
ApplyRequest ==
    /\ call.fn = "request"
    /\ ~call.applied
    /\ call' = [call EXCEPT !.applied = TRUE,
                            !.value = request(call.wires, call.retry_count)]
    /\ UNCHANGED <<engine_vars, runner, handler>>


\* the values of a flag of a request: no key, null, a boolean, or a number
\* other than zero
FlagValues == {Absent, None, "False", "True", "number"}

\* the flags determine_flow reads
FlowFlags ==
    {"process_only_profession_course", "process_only_profession_skills",
     "process_only_vacancy_course", "process_only_vacancy_skills",
     "create_user_embedding"}

\* mutant: the vacancy flags are looked at before the profession flags
determine_flow_vacancy_first(request_data) ==
    IF IsTruthy(Get(request_data, "process_only_vacancy_course"))
    THEN "course_to_vacancy"
    ELSE IF IsTruthy(Get(request_data, "process_only_vacancy_skills"))
    THEN "analysis_to_vacancy"
    ELSE IF IsTruthy(Get(request_data, "process_only_profession_course"))
    THEN "course_to_profession"
    ELSE IF IsTruthy(Get(request_data, "process_only_profession_skills"))
    THEN "analysis_to_profession"
    ELSE IF IsTruthy(Get(request_data, "create_user_embedding"))
    THEN "update_profile"
    ELSE "first_login"

\* FlowRouter.determine_flow: the first flag that is truthy names the flow
determine_flow(request_data) ==
    IF IsTruthy(Get(request_data, "process_only_profession_course"))
    THEN "course_to_profession"
    ELSE IF IsTruthy(Get(request_data, "process_only_profession_skills"))
    THEN "analysis_to_profession"
    ELSE IF IsTruthy(Get(request_data, "process_only_vacancy_course"))
    THEN "course_to_vacancy"
    ELSE IF IsTruthy(Get(request_data, "process_only_vacancy_skills"))
    THEN "analysis_to_vacancy"
    ELSE IF IsTruthy(Get(request_data, "create_user_embedding"))
    THEN "update_profile"
    ELSE "first_login"

\* FlowRouter.get_flow_definition: the steps of the flow, or ValueError for a
\* name that is not in the catalog
get_flow_definition(flow_name) ==
    IF flow_name \in DOMAIN FLOWS
    THEN [raised |-> FALSE, steps |-> FlowSteps(flow_name)]
    ELSE [raised |-> TRUE, steps |-> <<>>]

\* the calls of determine_flow: every combination of values of its flags
DetermineCalls ==
    {[fn |-> "determine_flow", request_data |-> request_data,
      applied |-> FALSE,
      value |-> [flow_name |-> None, flow_def |-> [raised |-> FALSE, steps |-> <<>>]]] :
        request_data \in [FlowFlags -> FlagValues]}

\* orchestrator_handler.py lines 80-81: the flow is chosen and its definition
\* is looked up
ApplyDetermine ==
    /\ call.fn = "determine_flow"
    /\ ~call.applied
    /\ LET flow_name == determine_flow(call.request_data) IN
       call' = [call EXCEPT
                  !.applied = TRUE,
                  !.value = [flow_name |-> flow_name,
                             flow_def |-> get_flow_definition(flow_name)]]
    /\ UNCHANGED <<engine_vars, runner, handler>>

\* the names of the catalog that contain a word ('word' in step.name)
NamesContaining ==
    [vacancy |-> {"match_analysis_user_vacancy", "gap_analysis_user_vacancy",
                  "suggest_course_vacancy"},
     profession |-> {"match_analysis_user_profession",
                     "gap_analysis_user_profession",
                     "suggest_course_profession"},
     carreira |-> {"match_usuario_carreira"}]

\* request_data.get(key, default)
GetDefault(request_data, key, default) ==
    IF request_data[key] = Absent THEN default ELSE request_data[key]

\* the flags filter_steps_by_context reads
FilterFlags ==
    {"process_vacancy_orchestrator", "process_profession_orchestrator"}

\* FlowRouter.filter_steps_by_context: with both flags truthy the steps as
\* they are; otherwise the steps without those whose name contains 'vacancy'
\* (vacancy flag falsy) or 'profession' or 'carreira' (profession flag falsy)
filter_steps_by_context(flow_steps, request_data) ==
    LET process_vacancy ==
            GetDefault(request_data, "process_vacancy_orchestrator", "True")
        process_profession ==
            GetDefault(request_data, "process_profession_orchestrator", "True")
        Kept(step) ==
            /\ ~(step.name \in NamesContaining.vacancy
                   /\ ~IsTruthy(process_vacancy))
            /\ ~(step.name \in NamesContaining.profession
                                  \cup NamesContaining.carreira
                   /\ ~IsTruthy(process_profession))
    IN  IF IsTruthy(process_vacancy) /\ IsTruthy(process_profession)
        THEN flow_steps
        ELSE SelectSeq(flow_steps, Kept)

\* the calls of filter_steps_by_context: every flow of the catalog, every
\* combination of values of the two flags
FilterCalls ==
    {[fn |-> "filter_steps_by_context", flow_name |-> flow_name,
      steps |-> FlowSteps(flow_name), request_data |-> request_data,
      applied |-> FALSE, value |-> <<>>] :
        flow_name \in DOMAIN FLOWS,
        request_data \in [FilterFlags -> FlagValues]}

\* orchestrator_handler.py line 91: the steps of the flow are filtered
ApplyFilter ==
    /\ call.fn = "filter_steps_by_context"
    /\ ~call.applied
    /\ call' = [call EXCEPT
                  !.applied = TRUE,
                  !.value = filter_steps_by_context(call.steps,
                                                    call.request_data)]
    /\ UNCHANGED <<engine_vars, runner, handler>>

\* settings.py, section "Steps de Vaga" of FlowConfig.STEPS
CatalogVacancySteps ==
    {"match_candidato", "match_analysis_user_vacancy",
     "gap_analysis_user_vacancy", "suggest_course_vacancy"}

\* settings.py, section "Steps de Profissao" of FlowConfig.STEPS
CatalogProfessionSteps ==
    {"match_usuario_profissao", "match_usuario_carreira",
     "match_analysis_user_profession", "gap_analysis_user_profession",
     "suggest_course_profession"}


\* _validate_request: the flags that must be booleans when present
boolean_fields ==
    <<"create_user_embedding", "process_profession_orchestrator",
      "process_vacancy_orchestrator", "process_only_profession_course",
      "process_only_profession_skills", "process_only_vacancy_course",
      "process_only_vacancy_skills">>

\* _validate_request: the tokens that must be texts when given
token_fields ==
    <<"create_user_embeddings_token", "match_candidato_token",
      "match_analysis_user_vacancy_token", "gap_analysis_user_vacancy_token",
      "suggest_course_vacancy_token", "match_user_profession_token",
      "match_user_career_token", "match_analysis_user_profession_token",
      "gap_analysis_user_profession_token",
      "suggest_course_profession_token">>

\* the keys of a request the handler looks at
RequestFields ==
    {"user_id", "session_id", "identifier"}
        \cup {boolean_fields[i] : i \in 1..Len(boolean_fields)}
        \cup {token_fields[i] : i \in 1..Len(token_fields)}

\* the values of a key of a request: no key, null, the empty text, a text,
\* a boolean, a number other than zero
FieldValues == {Absent, None, "empty", "value", "False", "True", "number"}

\* isinstance(v, str)
IsStr(v) == v \in {"empty", "value"}

\* isinstance(v, bool)
IsBool(v) == v \in {"False", "True"}

\* mutant: the types of the tokens are not looked at
validate_request_without_tokens(request_data) ==
    LET user_errors ==
            IF ~IsTruthy(Get(request_data, "user_id"))
            THEN <<"Missing required field: user_id">>
            ELSE IF ~IsStr(request_data["user_id"])
            THEN <<"Field 'user_id' must be a string">>
            ELSE <<>>
        session_errors ==
            IF ~IsTruthy(Get(request_data, "session_id"))
            THEN <<"Missing required field: session_id">>
            ELSE IF ~IsStr(request_data["session_id"])
            THEN <<"Field 'session_id' must be a string">>
            ELSE <<>>
        NotBool(field) ==
            request_data[field] # Absent /\ ~IsBool(request_data[field])
        bad_flags == SelectSeq(boolean_fields, NotBool)
    IN  user_errors \o session_errors
        \o [i \in 1..Len(bad_flags) |->
              "Field '" \o bad_flags[i] \o "' must be a boolean"]

\* OrchestratorHandler._validate_request: the list of errors, in the order
\* the code appends them
validate_request(request_data) ==
    LET user_errors ==
            IF ~IsTruthy(Get(request_data, "user_id"))
            THEN <<"Missing required field: user_id">>
            ELSE IF ~IsStr(request_data["user_id"])
            THEN <<"Field 'user_id' must be a string">>
            ELSE <<>>
        session_errors ==
            IF ~IsTruthy(Get(request_data, "session_id"))
            THEN <<"Missing required field: session_id">>
            ELSE IF ~IsStr(request_data["session_id"])
            THEN <<"Field 'session_id' must be a string">>
            ELSE <<>>
        NotBool(field) ==
            request_data[field] # Absent /\ ~IsBool(request_data[field])
        NotStr(field) ==
            /\ request_data[field] \notin {Absent, None}
            /\ ~IsStr(request_data[field])
        bad_flags == SelectSeq(boolean_fields, NotBool)
        bad_tokens == SelectSeq(token_fields, NotStr)
    IN  user_errors \o session_errors
        \o [i \in 1..Len(bad_flags) |->
              "Field '" \o bad_flags[i] \o "' must be a boolean"]
        \o [i \in 1..Len(bad_tokens) |->
              "Field '" \o bad_tokens[i] \o "' must be a string if provided"]

\* FlowDefinition.requires_embeddings of the flows of the catalog
requires_embeddings(flow_name) == flow_name = "update_profile"

\* FlowRouter.validate_flow_params: the list of errors
validate_flow_params(flow_name, request_data) ==
    (IF ~IsTruthy(Get(request_data, "user_id"))
     THEN <<"Missing required parameter: user_id">> ELSE <<>>)
    \o (IF ~IsTruthy(Get(request_data, "session_id"))
        THEN <<"Missing required parameter: session_id">> ELSE <<>>)
    \o (IF /\ flow_name \in DOMAIN FLOWS
           /\ requires_embeddings(flow_name)
           /\ ~IsTruthy(Get(request_data, "session_id"))
        THEN <<"Flow requires embeddings but session_id is missing">>
        ELSE <<>>)

\* str(v) inside an f-string
TextOf(v) == IF v = "empty" THEN "" ELSE v

\* the key of a request in the tracker: f"{user_id}_{session_id}_{identifier}"
request_key(user_id, session_id, request_data) ==
    TextOf(user_id) \o "_" \o TextOf(session_id) \o "_"
        \o TextOf(GetDefault(request_data, "identifier", "empty"))

\* OrchestratorHandler.execution_tracker_ttl, in seconds
execution_tracker_ttl == 300

\* OrchestratorHandler._cleanup_execution_tracker at clock reading
\* current_time: the entries older than the TTL are deleted
cleanup_execution_tracker(tracker, current_time) ==
    [key \in {k \in DOMAIN tracker :
                ~(current_time - tracker[k] > execution_tracker_ttl)} |->
        tracker[key]]

\* mutant: a duplicate refreshes the time of its key
is_duplicate_request_refreshing(key, tracker, current_time) ==
    LET cleaned == cleanup_execution_tracker(tracker, current_time)
        registered ==
            [k \in DOMAIN cleaned \cup {key} |->
                IF k = key THEN current_time ELSE cleaned[k]]
    IN  IF /\ key \in DOMAIN cleaned
           /\ current_time - cleaned[key] < execution_tracker_ttl
        THEN [duplicate |-> TRUE, tracker |-> registered]
        ELSE [duplicate |-> FALSE, tracker |-> registered]

\* OrchestratorHandler._is_duplicate_request for a key at clock reading
\* current_time (the reading of line 233 and the one the cleanup takes at
\* line 251 fall at the same instant of the model's clock): the answer and the
\* tracker it leaves
is_duplicate_request(key, tracker, current_time) ==
    LET cleaned == cleanup_execution_tracker(tracker, current_time) IN
    IF /\ key \in DOMAIN cleaned
       /\ current_time - cleaned[key] < execution_tracker_ttl
    THEN [duplicate |-> TRUE, tracker |-> cleaned]
    ELSE [duplicate |-> FALSE,
          tracker |-> [k \in DOMAIN cleaned \cup {key} |->
                          IF k = key THEN current_time ELSE cleaned[k]]]

\* the stages of handle_request at which an exception may come up
HandlerFaults ==
    {"none", "determine_flow", "filter_steps_by_context", "execute_flow",
     "build_response", "log_execution_end"}

\* how execute_flow ends when it returns: every step gave SUCCESS, or the
\* first step gave a CRITICAL_ERROR and the run was aborted
FlowOutcomes == {"completed", "aborted"}

\* the results execute_flow returns for the steps
flow_results(flow_steps, flow_outcome) ==
    IF flow_outcome = "completed"
    THEN [i \in 1..Len(flow_steps) |->
            StepResult(flow_steps[i].name, SUCCESS, "measured")]
    ELSE <<StepResult(flow_steps[1].name, CRITICAL_ERROR, "measured")>>

\* mutant: an exception of _build_response leaves handle_request
on_exception_reraising(stage) ==
    IF stage = "build_response"
    THEN [raised |-> TRUE, status_code |-> NoStatusCode,
          body |-> [error |-> "raised"]]
    ELSE [raised |-> FALSE, status_code |-> 500,
          body |-> [error |-> "Internal server error"]]

\* the except clause of handle_request (lines 137-152): the error response
on_exception(stage) ==
    [raised |-> FALSE, status_code |-> 500,
     body |-> [error |-> "Internal server error"]]

\* OrchestratorHandler.handle_request for a request, with the tracker and the
\* clock it finds, the stage at which an exception comes up and the way the
\* flow ends: what it returns, the tracker it leaves, the answer of the
\* duplicate check, whether an ExecutionContext was created and the steps
\* dispatched (the webhook sent after the response is built changes neither)
handle_request(request_data, tracker, now, fault_at, flow_outcome) ==
    LET Return(status_code, body, tracker_left, duplicate, context_created,
               steps_dispatched) ==
            [raised |-> FALSE, status_code |-> status_code, body |-> body,
             tracker |-> tracker_left, duplicate |-> duplicate,
             context_created |-> context_created,
             dispatched |-> steps_dispatched]
        Caught(stage, tracker_left, duplicate, context_created,
               steps_dispatched) ==
            [raised |-> on_exception(stage).raised,
             status_code |-> on_exception(stage).status_code,
             body |-> on_exception(stage).body,
             tracker |-> tracker_left, duplicate |-> duplicate,
             context_created |-> context_created,
             dispatched |-> steps_dispatched]
        validation_errors == validate_request(request_data)
    IN
    IF validation_errors # <<>>
    THEN Return(400, [errors |-> validation_errors], tracker, Absent, FALSE,
                <<>>)
    ELSE
    LET user_id == request_data["user_id"]
        session_id == request_data["session_id"]
        check == is_duplicate_request(
                    request_key(user_id, session_id, request_data),
                    tracker, now)
        duplicate == IF check.duplicate THEN "True" ELSE "False"
        flow_name == determine_flow(request_data)
        flow_definition == get_flow_definition(flow_name)
        flow_errors == validate_flow_params(flow_name, request_data)
        flow_steps == filter_steps_by_context(flow_definition.steps,
                                              request_data)
        flow_result == flow_results(flow_steps, flow_outcome)
        names == [i \in 1..Len(flow_result) |-> flow_result[i].step_name]
    IN
    IF fault_at = "determine_flow" \/ flow_definition.raised
    THEN Caught("determine_flow", check.tracker, duplicate, FALSE, <<>>)
    ELSE IF flow_errors # <<>>
    THEN Return(400, [errors |-> flow_errors, flow |-> flow_name],
                check.tracker, duplicate, FALSE, <<>>)
    ELSE IF fault_at = "filter_steps_by_context"
    THEN Caught("filter_steps_by_context", check.tracker, duplicate, FALSE,
                <<>>)
    ELSE IF flow_steps = <<>>
    THEN Return(200, [message |-> "No steps to execute after filtering",
                      flow_name |-> flow_name],
                check.tracker, duplicate, FALSE, <<>>)
    ELSE IF fault_at = "execute_flow"
    THEN Caught("execute_flow", check.tracker, duplicate, TRUE,
                <<flow_steps[1].name>>)
    ELSE IF fault_at = "build_response"
    THEN Caught("build_response", check.tracker, duplicate, TRUE, names)
    ELSE IF fault_at = "log_execution_end"
    THEN Caught("log_execution_end", check.tracker, duplicate, TRUE, names)
    ELSE Return(200, build_response(flow_result), check.tracker, duplicate,
                TRUE, names)

\* requests of every kind the validation tells apart, with the flags that
\* choose a short flow and empty it
WideRequests ==
    {[field \in RequestFields |->
        CASE field = "user_id" -> user_id
          [] field = "session_id" -> session_id
          [] field = "identifier" -> identifier
          [] field = "create_user_embedding" -> embedding
          [] field = "process_vacancy_orchestrator" -> vacancy
          [] field = "process_profession_orchestrator" -> profession
          [] field = "process_only_vacancy_course" -> only_course
          [] field = "match_candidato_token" -> token
          [] OTHER -> Absent] :
        user_id \in {Absent, "empty", "number", "value"},
        session_id \in {Absent, "number", "value"},
        identifier \in {Absent, "value"},
        embedding \in {Absent, "True"},
        vacancy \in {Absent, "False", "number"},
        profession \in {Absent, "False"},
        only_course \in {Absent, None, "True"},
        token \in {Absent, None, "number", "value"}}

\* the tracker before any request
NoTracker == [key \in {} |-> 0]

\* the calls of handle_request on a new handler
HandleRequestCalls ==
    {[fn |-> "handle_request", request_data |-> request_data,
      fault_at |-> fault_at, flow_outcome |-> flow_outcome,
      applied |-> FALSE,
      value |-> [raised |-> FALSE, status_code |-> NoStatusCode]] :
        request_data \in WideRequests, fault_at \in HandlerFaults,
        flow_outcome \in FlowOutcomes}

\* orchestrator_handler.py lines 36-152: handle_request is applied
ApplyHandleRequest ==
    /\ call.fn = "handle_request"
    /\ ~call.applied
    /\ call' = [call EXCEPT
                  !.applied = TRUE,
                  !.value = handle_request(call.request_data, NoTracker, 0,
                                           call.fault_at, call.flow_outcome)]
    /\ UNCHANGED <<engine_vars, runner, handler>>

\* a helper about to be called, with any of its arguments
InitCall ==
    /\ EngineIdle
    /\ handler = NoHandler
    /\ \/ call \in SkipCalls
       \/ call \in HeaderCalls
       \/ call \in PlanCalls
       \/ call \in HandleCalls
       \/ call \in RequestCalls
       \/ call \in DetermineCalls
       \/ call \in FilterCalls
       \/ call \in HandleRequestCalls

NextCall ==
    \/ ApplySkip
    \/ ApplyHeaders
    \/ ApplyPlan
    \/ ApplyHandle
    \/ ApplyRequest
    \/ ApplyDetermine
    \/ ApplyFilter
    \/ ApplyHandleRequest

SpecCall == InitCall /\ [][NextCall]_vars

\* ---------------------------------------------------------------------
\* The handler over time: requests arrive at one OrchestratorHandler while
\* its clock (time.time) advances; the tracker lives as long as the handler.

\* the clock advances by this many seconds at a time
TimeUnit == 100

\* no request was handled yet
NoRequest == [called |-> FALSE]

\* requests with or without user_id and identifier, for the flow of one step
\* or the default flow
HandlerRequests ==
    {[field \in RequestFields |->
        CASE field = "user_id" -> user_id
          [] field = "session_id" -> "value"
          [] field = "identifier" -> identifier
          [] field = "process_only_vacancy_course" -> only_course
          [] OTHER -> Absent] :
        user_id \in {Absent, "value"},
        identifier \in {Absent, "value"},
        only_course \in {Absent, "True"}}

\* a new handler (OrchestratorHandler.__init__): an empty tracker
InitHandler ==
    /\ EngineIdle
    /\ call = NoCall
    /\ handler = [now |-> 0, tracker |-> NoTracker, last |-> NoRequest]

\* time passes between two requests
Tick ==
    /\ handler.now + TimeUnit <= MaxTicks * TimeUnit
    /\ handler' = [handler EXCEPT !.now = @ + TimeUnit]
    /\ UNCHANGED <<engine_vars, runner, call>>

\* orchestrator_handler.py lines 36-152: a request is handled at the current
\* time with the tracker left by the requests before
HandleRequest ==
    \E request_data \in HandlerRequests,
       fault_at \in {"none", "execute_flow"},
       flow_outcome \in FlowOutcomes :
        LET result == handle_request(request_data, handler.tracker,
                                     handler.now, fault_at, flow_outcome) IN
        /\ handler' = [now |-> handler.now,
                       tracker |-> result.tracker,
                       last |-> [called |-> TRUE,
                                 request_data |-> request_data,
                                 time |-> handler.now,
                                 tracker_before |-> handler.tracker,
                                 result |-> result]]
        /\ UNCHANGED <<engine_vars, runner, call>>

NextHandler ==
    \/ Tick
    \/ HandleRequest

SpecHandler == InitHandler /\ [][NextHandler]_vars

\* ------------------------------------------------------ claim vocabulary
Range(seq) == {seq[i] : i \in 1..Len(seq)}
ResultNames(rs) == {rs[i].step_name : i \in 1..Len(rs)}
GroupStepNames(g) == {step_groups[g][i].name : i \in 1..Len(step_groups[g])}
GroupOf(name) == CHOOSE g \in 1..Len(step_groups) : name \in GroupStepNames(g)
StepNames == {steps[i].name : i \in 1..Len(steps)}
CountResults(rs, name) == Cardinality({i \in 1..Len(rs) : rs[i].step_name = name})
CountDispatched(name) ==
    Cardinality({i \in 1..Len(dispatched) : dispatched[i] = name})
QueueNames == {queue[i].name : i \in 1..Len(queue)}
DoneNames == {f.step_name : f \in done}
\* results of group g that the context holds
ContextResultsOf(g) ==
    {r \in Range(ctx_results) : r.step_name \in GroupStepNames(g)}
RECURSIVE Flatten(_)
Flatten(gs) == IF gs = <<>> THEN <<>> ELSE Head(gs) \o Flatten(Tail(gs))
Planned == pc # "planned"

\* C1: once some group holds a CriticalError result, no step of a later group
\* is dispatched and no result of a later group exists.
C1_AbortStopsDispatch ==
    \A r \in Range(results) \cup Range(ctx_results) \cup Range(group_results) :
        r.status = CRITICAL_ERROR =>
            \A g \in (GroupOf(r.step_name) + 1)..Len(step_groups) :
                GroupStepNames(g) \cap
                    (Range(dispatched) \cup ResultNames(results)
                        \cup ResultNames(ctx_results)) = {}

\* a parallel group aborted the run while a later group was still planned
C1_Witness ==
    /\ pc = "aborted"
    /\ Len(group) > 1
    /\ group_index < Len(step_groups)
    /\ Len(group_results) = Len(group)

\* C2: at every group boundary and at the end of every run, each dispatched
\* step has exactly one result in the result list and no other step has one.
C2_OneResultPerDispatchedStep ==
    pc \in {"loop", "check", "completed", "aborted", "raised"} =>
        \A name \in StepNames :
            /\ CountDispatched(name) <= 1
            /\ CountResults(results, name) = CountDispatched(name)

\* C3: when the engine decides about a group (abort or proceed), and ever
\* after, no step of that group is queued, running or uncollected and each of
\* its steps has its result in context.results.
C3_DecisionAfterWholeGroup ==
    \A g \in 1..Len(step_groups) :
        (g < group_index \/ (g = group_index /\ pc \in {"check", "aborted"})) =>
            \A name \in GroupStepNames(g) :
                /\ name \notin running \cup QueueNames \cup DoneNames
                /\ CountResults(ctx_results, name) >= 1

\* a parallel group whose first collected result was critical was waited out
C3_Witness ==
    /\ pc = "aborted"
    /\ Len(group) > 1
    /\ Len(group_results) = Len(group)
    /\ group_results[1].status = CRITICAL_ERROR
    /\ group_results[2].status = SUCCESS

\* C4: steps that are active together belong to one group, and when a step
\* has been dispatched every step of every earlier group was dispatched
\* before it and has finished.
C4_GroupBarrier ==
    /\ \A a, b \in running \cup QueueNames : GroupOf(a) = GroupOf(b)
    /\ \A i \in 1..Len(dispatched) :
         \A g \in 1..(GroupOf(dispatched[i]) - 1) :
            \A name \in GroupStepNames(g) :
                /\ \E j \in 1..(i - 1) : dispatched[j] = name
                /\ name \notin running \cup QueueNames

\* two steps of the second group run together after the first group is done
C4_Witness ==
    /\ pc = "collect"
    /\ group_index = 2
    /\ Cardinality(running) = 2

\* C5: the engine leaves the abort check towards "aborted" exactly when the
\* context holds a CriticalError result of the current group; otherwise it
\* goes on to the next group.
C5_OnlyCriticalAborts ==
    [][(pc = "check" /\ pc' # "check") =>
         /\ (pc' = "aborted") <=>
                (\E r \in ContextResultsOf(group_index) : r.status = CRITICAL_ERROR)
         /\ pc' # "aborted" => (pc' = "loop" /\ group_index' = group_index + 1)
      ]_vars

\* the second group is dispatched after a parallel group with a Failed and a
\* Skipped result
C5_Witness ==
    /\ pc = "single"
    /\ group_index = 2
    /\ Len(step_groups[1]) = 2
    /\ {r.status : r \in ContextResultsOf(1)} = {FAILED, SKIPPED}

\* C6: after a parallel group of N steps the context holds exactly N results
\* of that group, one per step.
C6_ParallelGroupExactlyN ==
    \A g \in 1..Len(step_groups) :
        (Len(step_groups[g]) > 1 /\
            (g < group_index \/ (g = group_index /\ pc \in {"check", "aborted"}))) =>
            /\ \A name \in GroupStepNames(g) : CountResults(ctx_results, name) = 1
            /\ Cardinality({i \in 1..Len(ctx_results) :
                   ctx_results[i].step_name \in GroupStepNames(g)})
                 = Len(step_groups[g])

\* a parallel group finished in an order other than its submission order
C6_Witness ==
    /\ pc = "check"
    /\ Len(group) = 2
    /\ ctx_results[Len(ctx_results)].step_name = group[1].name

\* C7: context.results changes only by the engine thread appending one
\* result, at a moment when no pool worker is queued, running or uncollected.
C7_AppendsSerialized ==
    [][ctx_results' # ctx_results =>
         /\ pc \in {"single", "append"}
         /\ queue = <<>> /\ done = {}
         /\ pc = "append" => running = {}
         /\ Len(ctx_results') = Len(ctx_results) + 1
         /\ SubSeq(ctx_results', 1, Len(ctx_results)) = ctx_results
      ]_vars

\* the engine is between two appends of a parallel group's results
C7_Witness ==
    /\ pc = "append"
    /\ appended = 1
    /\ Len(group_results) = 2

\* C8: in a parallel group at most min(group size, max_workers) steps run at
\* once, and when the group returns every step of it has run.
C8_BoundedPool ==
    /\ (pc \in {"submit", "collect"}) =>
          Cardinality(running) <= Min(Len(group), max_workers)
    /\ (pc \in {"append", "check"} /\ Len(group) > 1) =>
          GroupStepNames(group_index) \subseteq Range(dispatched)

\* a submitted step waits because every worker is busy
C8_Witness ==
    /\ pc = "collect"
    /\ queue # <<>>
    /\ max_workers < Len(group)
    /\ Cardinality(running) = max_workers

\* C9: the planned groups are non-empty and their concatenation is the input.
C9_GroupingLossless ==
    Planned =>
        /\ Flatten(step_groups) = steps
        /\ \A g \in 1..Len(step_groups) : step_groups[g] # <<>>
        /\ steps = <<>> => step_groups = <<>>

\* three steps were planned into two groups
C9_Witness ==
    /\ Planned
    /\ Len(steps) = 3
    /\ Len(step_groups) = 2

\* position of a step in the input, and the tag of a step
TagOf(name) == steps[name].parallel_group
NonEmptyTag(tag) == tag # NoTag /\ tag # ""

\* C10: adjacent steps with one non-empty tag share a group, a multi-step
\* group carries one non-empty tag, consecutive groups never carry the same
\* non-empty tag, and a step without a non-empty tag is alone in its group.
C10_MaximalRuns ==
    Planned =>
        /\ \A i \in 1..(Len(steps) - 1) :
             (NonEmptyTag(TagOf(i)) /\ TagOf(i) = TagOf(i + 1)) =>
                 GroupOf(i) = GroupOf(i + 1)
        /\ \A g \in 1..Len(step_groups) :
             Len(step_groups[g]) > 1 =>
                 \A a, b \in GroupStepNames(g) :
                     NonEmptyTag(TagOf(a)) /\ TagOf(a) = TagOf(b)
        /\ \A g \in 1..(Len(step_groups) - 1) :
             ~(/\ NonEmptyTag(step_groups[g][1].parallel_group)
               /\ step_groups[g][1].parallel_group
                    = step_groups[g + 1][1].parallel_group)
        /\ \A i \in 1..Len(steps) :
             ~NonEmptyTag(TagOf(i)) => GroupStepNames(GroupOf(i)) = {i}

\* [A(x), B(x), C(untagged)] was planned as [[A, B], [C]]
C10_Witness ==
    /\ Planned
    /\ Len(steps) = 3
    /\ TagOf(1) = "x" /\ TagOf(2) = "x" /\ TagOf(3) = NoTag
    /\ Len(step_groups) = 2
    /\ GroupStepNames(1) = {1, 2}
    /\ GroupStepNames(2) = {3}

\* C11: two steps share a group only if every step from the first to the
\* second carries the same non-empty tag; a step without a non-empty tag is
\* alone in its group.
C11_AdjacencyOnly ==
    Planned =>
        /\ \A i, j \in 1..Len(steps) :
             (i < j /\ GroupOf(i) = GroupOf(j)) =>
                 \A k \in i..j : NonEmptyTag(TagOf(k)) /\ TagOf(k) = TagOf(i)
        /\ \A i \in 1..Len(steps) :
             ~NonEmptyTag(TagOf(i)) => Len(step_groups[GroupOf(i)]) = 1

\* [A(x), B(untagged), C(x)] was planned as [A], [B], [C]
C11_Witness ==
    /\ Planned
    /\ Len(steps) = 3
    /\ TagOf(1) = "x" /\ TagOf(2) = NoTag /\ TagOf(3) = "x"
    /\ Len(step_groups) = 3
    /\ GroupOf(1) = 1 /\ GroupOf(2) = 2 /\ GroupOf(3) = 3

\* names of the steps that form a singleton group
SingletonSteps == {n \in StepNames : Len(step_groups[GroupOf(n)]) = 1}

\* C12: a completed run returns one result per step; in every state the
\* results of an earlier group come before those of a later group, and the
\* results of singleton groups are in step order.
C12_ResultCountAndOrder ==
    /\ pc = "completed" => Len(results) = Len(steps)
    /\ \A i, j \in 1..Len(results) :
         i < j =>
           /\ GroupOf(results[i].step_name) <= GroupOf(results[j].step_name)
           /\ (results[i].step_name \in SingletonSteps
                 /\ results[j].step_name \in SingletonSteps)
                => results[i].step_name < results[j].step_name

\* a completed run whose parallel group finished in reverse submission order
C12_Witness ==
    /\ pc = "completed"
    /\ Len(results) = 3
    /\ \E i \in 1..2 : results[i].step_name > results[i + 1].step_name

\* C13: at every group boundary and when execute_flow returns, the context
\* holds exactly the returned list; the context's list changes only by
\* growing at its end.
C13_ContextMirrorsResults ==
    /\ [](pc \in {"loop", "check", "completed", "aborted"} => ctx_results = results)
    /\ [][/\ Len(ctx_results') >= Len(ctx_results)
          /\ SubSeq(ctx_results', 1, Len(ctx_results)) = ctx_results]_vars

\* execute_flow returned three results, two of them from a parallel group
C13_Witness ==
    /\ pc = "completed"
    /\ Len(ctx_results) = 3
    /\ Len(step_groups) = 2

\* the four states of a flow run; a run that left execute_flow by an
\* exception is in none of them
FlowState ==
    CASE pc = "planned" -> "Planned"
      [] pc = "completed" -> "Completed"
      [] pc = "aborted" -> "Aborted"
      [] pc = "raised" -> "none"
      [] OTHER -> "Running"

\* C14: a flow run moves Planned -> Running -> {Completed, Aborted} and makes
\* no other transition: it becomes Aborted exactly when the dispatched group
\* yielded a CRITICAL_ERROR result, Completed exactly when the last group has
\* finished and no result is a CRITICAL_ERROR, and both are terminal.
C14_StateMachine ==
    [][/\ FlowState = "Planned" => FlowState' \in {"Planned", "Running"}
       /\ FlowState = "Running" => FlowState' \in {"Running", "Completed", "Aborted"}
       /\ FlowState = "Completed" => FlowState' = "Completed"
       /\ FlowState = "Aborted" => FlowState' = "Aborted"
       /\ (FlowState = "Running" /\ FlowState' = "Aborted") =>
             (pc = "check" /\ HasCritical(group_results))
       /\ (pc = "check" /\ HasCritical(group_results)) => FlowState' = "Aborted"
       /\ (FlowState = "Running" /\ FlowState' = "Completed") =>
             (group_index > Len(step_groups) /\ ~HasCritical(results))
       /\ (pc = "loop" /\ group_index > Len(step_groups)) =>
             FlowState' = "Completed"]_vars

\* C15: every flow run eventually ends, after its last group or right after
\* the first group with a CRITICAL_ERROR, and execute_flow then returns.
C15_Terminates == <>(pc \in {"completed", "aborted"})

\* a synthetic result: the only results whose duration is not measured
Synthetic(r) == r.duration = "zero"

\* C16: the exception of a worker is caught where the group collects its
\* futures and becomes a synthetic result with status CRITICAL_ERROR and
\* duration 0; the step appears exactly once among the results, the results of
\* the other workers are kept, and the flow aborts after that group.
C16_WorkerFaultBecomesResult ==
    /\ [](/\ \A i \in 1..Len(group_results) : Synthetic(group_results[i]) =>
               /\ group_results[i].status = CRITICAL_ERROR
               /\ CountResults(group_results, group_results[i].step_name) = 1
          /\ \A i \in 1..Len(results) : Synthetic(results[i]) =>
               /\ results[i].status = CRITICAL_ERROR
               /\ CountResults(results, results[i].step_name) = 1
               /\ group_index = GroupOf(results[i].step_name)
               /\ pc \in {"append", "check", "aborted"}
               /\ \A name \in GroupStepNames(group_index) :
                    CountResults(results, name) = 1)
    /\ [][(pc = "collect" /\ done' # done /\ done' \subseteq done) =>
            \E f \in done :
              /\ done' = done \ {f}
              /\ pc' = "collect"
              /\ group_results' = Append(group_results,
                   IF f.raised
                   THEN StepResult(f.step_name, CRITICAL_ERROR, "zero")
                   ELSE StepResult(f.step_name, f.status, f.duration))]_vars

\* a parallel group of two steps ended the flow: one worker raised, the other
\* returned SUCCESS, and both results are in the returned list
C16_Witness ==
    /\ pc = "aborted"
    /\ Len(group) = 2
    /\ \E i, j \in 1..Len(results) :
         /\ Synthetic(results[i]) /\ results[i].status = CRITICAL_ERROR
         /\ results[j].status = SUCCESS /\ results[j].duration = "measured"
         /\ GroupOf(results[i].step_name) = GroupOf(results[j].step_name)

\* C17: execute_flow never raises, whatever its steps do, a fault that escapes
\* execute_step included, in singleton groups as well as in parallel groups.
C17_NeverRaises == pc # "raised"

\* the call of execute_step is over
StepOver == runner.pc \in {"returned", "raised"}

\* the fault the environment holds has happened in this call
FaultHit == runner.fault_at \in runner.visited

\* C18: execute_step always returns a result and never raises, whatever fault
\* happens in logging, skip evaluation, target resolution, payload or header
\* construction or the transport call; every such fault yields CRITICAL_ERROR.
C18_RunnerNeverRaises ==
    StepOver =>
        /\ runner.pc = "returned"
        /\ ~runner.result.raised
        /\ FaultHit => runner.result.status = CRITICAL_ERROR

\* C19: once the skip check finds a rule matching the step, the call returns
\* SKIPPED; the address was not looked up, no payload was built and the
\* transport was not invoked, and the result does not abort the flow.
C19_SkipBeforeTransport ==
    (/\ "skip_check" \in runner.visited
     /\ runner.fault_at # "skip_check"
     /\ should_skip_step(runner.step, runner.request_data)) =>
        /\ runner.pc = "returned"
        /\ runner.result.status = SKIPPED
        /\ runner.http_calls = 0
        /\ runner.visited = {"start_log", "skip_check"}
        /\ ~HasCritical(<<runner.result>>)

\* a step with a configured address and a matching skip rule has returned
C19_Witness ==
    /\ runner.pc = "returned"
    /\ runner.step.name = "match_candidato"
    /\ runner.request_data.vacancy_id = "value"
    /\ runner.url = "set"
    /\ runner.fault_at = "none"
    /\ runner.result.status = SKIPPED

\* C20: once the address lookup gives no address (unset or empty), the call
\* returns SKIPPED, not CRITICAL_ERROR and not FAILED; the transport was not
\* invoked and the result does not abort the flow.
C20_NoTargetSkipped ==
    (/\ "resolve_url" \in runner.visited
     /\ runner.fault_at # "resolve_url"
     /\ runner.url \in {"unset", "empty"}) =>
        /\ runner.pc = "returned"
        /\ runner.result.status = SKIPPED
        /\ runner.result.status \notin {CRITICAL_ERROR, FAILED}
        /\ runner.http_calls = 0
        /\ "post" \notin runner.visited
        /\ ~HasCritical(<<runner.result>>)

\* a step no skip rule matches, with an empty address, has returned
C20_Witness ==
    /\ runner.pc = "returned"
    /\ runner.url = "empty"
    /\ ~should_skip_step(runner.step, runner.request_data)
    /\ "resolve_url" \in runner.visited
    /\ runner.result.status = SKIPPED

\* the call went past the skip check and found an address: the step is neither
\* skipped nor unconfigured
Invoking ==
    /\ "resolve_url" \in runner.visited
    /\ runner.fault_at # "resolve_url"
    /\ runner.url = "set"

\* the transport handed a response back to execute_step
Answered == runner.response # NoResponse

\* C21: for a step neither skipped nor unconfigured, the result is SUCCESS
\* exactly when the transport reports success, FAILED exactly when it hands
\* back a non-2xx status or an explicit error, CRITICAL_ERROR exactly when a
\* fault was raised; a FAILED result carries the transport's error text and
\* status code.
C21_StatusClassification ==
    (Invoking /\ StepOver) =>
        /\ runner.pc = "returned"
        /\ runner.result.status = SUCCESS <=>
             (Answered /\ is_success(runner.response))
        /\ runner.result.status = FAILED <=>
             (Answered /\ (~(200 <= runner.response.status_code
                              /\ runner.response.status_code < 300)
                           \/ runner.response.error # None))
        /\ runner.result.status = CRITICAL_ERROR <=>
             (FaultHit \/ (("post" \in runner.visited) /\ ~Answered))
        /\ runner.result.status = FAILED =>
             /\ runner.status_code = runner.response.status_code
             /\ runner.error = IF runner.response.error # None
                               THEN runner.response.error
                               ELSE HttpErrorText(runner.response.status_code)

\* the server answered 404: the result is FAILED with "HTTP 404" and code 404
C21_Witness ==
    /\ runner.pc = "returned"
    /\ Invoking
    /\ runner.wire = [kind |-> "response", status_code |-> 404]
    /\ runner.result.status = FAILED
    /\ runner.error = "HTTP 404"
    /\ runner.status_code = 404

\* C22: a timeout, a connection error or another request error during the
\* transport call comes back as an error value and is not raised: the step
\* ends FAILED, not CRITICAL_ERROR, and its result does not abort the flow.
C22_TransportFaultFails ==
    (/\ "post" \in runner.visited
     /\ runner.fault_at # "post"
     /\ runner.wire.kind \in TransportFaults) =>
        /\ runner.pc \in {"classify", "returned"}
        /\ Answered
        /\ runner.response.error # None
        /\ runner.pc = "returned" =>
             /\ runner.result.status = FAILED
             /\ runner.error = runner.response.error
             /\ ~HasCritical(<<runner.result>>)

\* the request timed out and the step returned FAILED
C22_Witness ==
    /\ runner.pc = "returned"
    /\ runner.wire.kind = "Timeout"
    /\ runner.fault_at = "none"
    /\ runner.http_calls = 1
    /\ runner.result.status = FAILED
    /\ runner.error = "Request timeout"

\* the names of the steps that have a result, collected or returned
Settled == ResultNames(results) \cup ResultNames(group_results) \cup DoneNames

\* C24: the engine does not retry: execute_step is called at most once per
\* step in one run, and a step that has a result, whatever its status, is
\* never dispatched again.
C24_NoRetry ==
    /\ [](\A name \in StepNames : CountDispatched(name) <= 1)
    /\ [][\A name \in Settled :
            CountDispatched(name)' = CountDispatched(name)]_vars

\* a run went on after a FAILED and a SKIPPED result and completed, each step
\* dispatched once
C24_Witness ==
    /\ pc = "completed"
    /\ Len(dispatched) = 3
    /\ \E i, j \in 1..Len(results) :
         results[i].status = FAILED /\ results[j].status = SKIPPED

\* C25: a result of a parallel group is in the context as soon as the engine
\* has collected it: when the engine collects a later result of the group,
\* the results collected before are already in context.results.
C25_AppendedAsCollected ==
    [][(pc = "collect" /\ Len(group_results') > Len(group_results)) =>
         \A i \in 1..Len(group_results) :
            group_results[i] \in Range(ctx_results)]_vars

\* C25 (amended): the results of a parallel group reach the context only
\* after the whole group has returned, then one by one in the order
\* collected, all of them before the abort test and the next group.
C25_AppendedAfterGroup ==
    /\ pc \in {"submit", "collect"} => ContextResultsOf(group_index) = {}
    /\ pc = "append" =>
         /\ Len(group_results) = Len(group)
         /\ ctx_results =
              SubSeq(results, 1, Len(results) - Len(group_results))
              \o SubSeq(group_results, 1, appended)
    /\ pc = "check" => ctx_results = results

\* the engine has collected one result of a parallel group, the other step
\* has not finished, and the context does not hold the collected result
C25_Witness ==
    /\ pc = "collect"
    /\ Len(group_results) = 1
    /\ running # {}
    /\ group_results[1] \notin Range(ctx_results)

\* the results of the last group the run processed
LastGroupResults ==
    IF results = <<>> THEN <<>>
    ELSE SelectSeq(results,
           LAMBDA r : GroupOf(r.step_name) = GroupOf(results[Len(results)].step_name))

\* execute_flow has returned
FlowReturned == pc \in {"completed", "aborted"}

\* C26: after execute_flow returns, the run was aborted if and only if the
\* result list has fewer entries than there are steps and the last group
\* processed contains a CRITICAL_ERROR result.
C26_AbortInferable ==
    FlowReturned =>
        (pc = "aborted" <=>
            (Len(results) < Len(steps) /\ HasCritical(LastGroupResults)))

\* C26 (amended): after execute_flow returns, the run was aborted if and only
\* if the last group processed contains a CRITICAL_ERROR result; a list with
\* fewer entries than steps implies an abort, and an aborted run has fewer
\* entries than steps exactly when groups remained after the aborting group.
C26_AbortFromLastGroup ==
    FlowReturned =>
        /\ pc = "aborted" <=> HasCritical(LastGroupResults)
        /\ Len(results) < Len(steps) => pc = "aborted"
        /\ pc = "aborted" =>
             (Len(results) < Len(steps) <=> group_index < Len(step_groups))

\* the last group of a flow of three steps aborted the run: the list has as
\* many entries as there are steps
C26_Witness ==
    /\ pc = "aborted"
    /\ Len(steps) = 3
    /\ Len(results) = Len(steps)
    /\ group_index = Len(step_groups)
    /\ HasCritical(LastGroupResults)

\* C23: execute_step has no effect on the Execution Context: context.results,
\* request_data and the other fields of the context are the same after every
\* stage of the call, whatever the outcome; the list of results is changed
\* by the engine's append only.
C23_ContextUntouched ==
    [][/\ ctx_results' = ctx_results
       /\ runner'.context = runner.context
       /\ runner'.request_data = runner.request_data]_vars

\* a call that built a payload from the request and returned SUCCESS, the
\* context holding the result of an earlier step
C23_Witness ==
    /\ runner.pc = "returned"
    /\ runner.result.status = SUCCESS
    /\ runner.payload = {"user_id", "vacancy_id"}
    /\ Len(ctx_results) = 1

\* the call of fn has been made
Applied(fn) == call.fn = fn /\ call.applied

\* the request holds a usable value under key
Provided(request_data, key) == request_data[key] \notin {Absent, None, "empty"}

\* C27: once execute_flow has returned, the handler answers with the partial
\* results and never with an error response: the steps list has one entry per
\* result, in order, and has_critical_errors is true exactly when some result
\* is a CRITICAL_ERROR.
C27_PartialResultsReported ==
    Applied("handle_results") =>
        /\ call.value.status_code = 200
        /\ Len(call.value.body.steps) = Len(call.results)
        /\ \A i \in 1..Len(call.results) :
             /\ call.value.body.steps[i].step_name = call.results[i].step_name
             /\ call.value.body.steps[i].status = call.results[i].status
        /\ call.value.body.has_critical_errors = "True" <=>
             HasCritical(call.results)
        /\ call.value.body.has_critical_errors \in {"True", Absent}

\* three results, the last a CRITICAL_ERROR, a webhook that raised: the
\* response is flagged and lists the three results
C27_Witness ==
    /\ Applied("handle_results")
    /\ call.webhook = "exception"
    /\ Len(call.results) = 3
    /\ call.results[1].status = SUCCESS
    /\ call.results[3].status = CRITICAL_ERROR
    /\ call.value.body.has_critical_errors = "True"
    /\ Len(call.value.body.steps) = 3

\* C28: in every flow of the catalog the steps carrying the same group tag
\* are contiguous: a tag does not come back after an untagged or differently
\* tagged step (so the planner puts them in one group).
C28_CatalogTagsContiguous ==
    Applied("group_steps_by_parallelism") =>
        \A i, j \in 1..Len(call.steps) :
            (/\ i < j
             /\ NonEmptyTag(call.steps[i].parallel_group)
             /\ call.steps[i].parallel_group = call.steps[j].parallel_group) =>
                /\ \A k \in i..j :
                     call.steps[k].parallel_group = call.steps[i].parallel_group
                /\ \E g \in 1..Len(call.value) :
                     {call.steps[i], call.steps[j]} \subseteq Range(call.value[g])

\* the credential _prepare_headers must use: the step's own, else the one
\* under the first present key of the generic list of the step's class
CredentialFor(step, request_data) ==
    LET keys == GenericKeys(step)
        present == {i \in 1..Len(keys) : request_data[keys[i]] # Absent}
    IN IF Provided(request_data, TokenKey(step))
       THEN request_data[TokenKey(step)]
       ELSE IF present = {} THEN Absent
       ELSE request_data[keys[CHOOSE i \in present :
                                   \A j \in present : i <= j]]

\* C29: the step's own credential ('<step name>_token') is used if the
\* request holds one; otherwise the first present key of the generic list of
\* the step's class is used; the Authorization header 'Bearer <token>' is
\* attached exactly when a credential was found this way.
C29_CredentialSelection ==
    Applied("prepare_headers") =>
        LET token == CredentialFor(call.step, call.request_data) IN
        IF token \notin {Absent, None, "empty"}
        THEN call.value = "Bearer " \o token
        ELSE call.value = Absent

\* the own key holds an empty text and two generic keys hold tokens: the
\* header carries the token of the first of them
C29_Witness ==
    /\ Applied("prepare_headers")
    /\ call.step.name = "suggest_course_vacancy"
    /\ call.request_data["suggest_course_vacancy_token"] = Absent
    /\ call.request_data["match_analysis_user_vacancy_token"] # Absent
    /\ call.request_data["gap_analysis_user_vacancy_token"] # Absent
    /\ call.value = "Bearer match_analysis_user_vacancy_token"

\* C30: should_skip_step depends on the step name and the request only:
\* match_usuario_profissao is skipped iff position_id is provided,
\* match_candidato iff vacancy_id is provided, match_usuario_carreira iff
\* both position_id and career_name are provided, no other step is skipped,
\* and the request is left as it was.
C30_SkipRules ==
    /\ [](Applied("should_skip_step") =>
            (call.value <=>
               \/ /\ call.step.name = "match_usuario_profissao"
                  /\ Provided(call.request_data, "position_id")
               \/ /\ call.step.name = "match_candidato"
                  /\ Provided(call.request_data, "vacancy_id")
               \/ /\ call.step.name = "match_usuario_carreira"
                  /\ Provided(call.request_data, "position_id")
                  /\ Provided(call.request_data, "career_name")))
    /\ [][call.fn = "should_skip_step" =>
            /\ call'.request_data = call.request_data
            /\ call'.step = call.step]_vars

\* match_usuario_carreira with position_id alone is not skipped
C30_Witness ==
    /\ Applied("should_skip_step")
    /\ call.step.name = "match_usuario_carreira"
    /\ call.request_data.position_id = "value"
    /\ call.request_data.career_name = Absent
    /\ ~call.value

\* group g was followed by the dispatch of a step of a later group
FollowedByDispatch(g) ==
    \E i \in 1..Len(dispatched) : GroupOf(dispatched[i]) > g

\* C31: a CRITICAL_ERROR result belongs to the last group processed so far:
\* every result of a group that was followed by the dispatch of another group
\* is SUCCESS, FAILED or SKIPPED.
C31_CriticalOnlyInLastGroup ==
    \A i \in 1..Len(results) :
        FollowedByDispatch(GroupOf(results[i].step_name)) =>
            results[i].status \in {SUCCESS, FAILED, SKIPPED}

\* the second group of a run gave a CRITICAL_ERROR after a first group that
\* gave FAILED
C31_Witness ==
    /\ pc = "aborted"
    /\ group_index = 2
    /\ \E i, j \in 1..Len(results) :
         /\ GroupOf(results[i].step_name) = 1 /\ results[i].status = FAILED
         /\ GroupOf(results[j].step_name) = 2
         /\ results[j].status = CRITICAL_ERROR

\* C39: in a response built for a run the four counts of the summary add up to
\* total_steps, total_steps is the number of results returned by the run, and
\* the steps list has total_steps entries.
C39_SummaryPartitionsResults ==
    (Applied("handle_results") /\ call.value.status_code = 200) =>
        LET summary == call.value.body.summary IN
        /\ summary.successful + summary.failed + summary.skipped
              + summary.critical_errors = summary.total_steps
        /\ summary.total_steps = Len(call.results)
        /\ Len(call.value.body.steps) = summary.total_steps

\* a response built from three results of three different statuses, one of
\* them a CRITICAL_ERROR
C39_Witness ==
    /\ Applied("handle_results")
    /\ call.value.status_code = 200
    /\ Len(call.results) = 3
    /\ call.value.body.summary.critical_errors = 1
    /\ call.value.body.summary.failed = 1
    /\ call.value.body.summary.skipped = 1

\* the response of the i-th attempt of the call of HttpClient.request that is
\* followed, had it been made
AttemptCode(i) == execute_request(call.wires[i]).status_code
\* a status code after which request ends at once: 2xx or 4xx
EndsAtOnce(c) == (200 <= c /\ c < 300) \/ (400 <= c /\ c < 500)
\* a status code after which request may try again: 5xx or 0
MayRetry(c) == (500 <= c /\ c < 600) \/ c = 0

\* C32: HttpClient.request makes at most retry_count + 1 attempts, ends at the
\* first attempt answered 2xx or 4xx, tries again only after a 5xx or a
\* status-0 outcome while attempts remain, and returns the response of the
\* last attempt made; with retry_count = 0, the step runner's client, exactly
\* one attempt is made.
C32_RequestRetries ==
    Applied("request") =>
        LET n == call.value.attempts IN
        /\ 1 <= n /\ n <= call.retry_count + 1
        /\ \A i \in 1..call.retry_count + 1 :
              (EndsAtOnce(AttemptCode(i))
                 /\ \A j \in 1..(i - 1) : ~EndsAtOnce(AttemptCode(j)))
              => n <= i
        /\ \A i \in 1..(n - 1) :
              MayRetry(AttemptCode(i)) /\ i <= call.retry_count
        /\ call.value.response = execute_request(call.wires[n])
        /\ (call.retry_count = step_retry_count => n = 1)

\* a client with two retries: a timeout, then a 500, then a 404 returned by
\* the third attempt
C32_Witness ==
    /\ Applied("request")
    /\ call.retry_count = 2
    /\ call.wires[1].kind = "Timeout"
    /\ AttemptCode(2) = 500
    /\ call.value.attempts = 3
    /\ call.value.response.status_code = 404

\* a flag of the request that is followed is true (a number other than zero
\* counts as true)
FlagSet(key) == call.request_data[key] \in {"True", "number"}

\* C33: determine_flow always returns a flow of the catalog, for which
\* get_flow_definition does not raise, chosen by fixed priority:
\* process_only_profession_course, process_only_profession_skills,
\* process_only_vacancy_course, process_only_vacancy_skills,
\* create_user_embedding, otherwise first_login.
C33_FlowByPriority ==
    Applied("determine_flow") =>
        /\ call.value.flow_name \in DOMAIN FLOWS
        /\ ~call.value.flow_def.raised
        /\ call.value.flow_name =
             CASE FlagSet("process_only_profession_course") ->
                    "course_to_profession"
               [] /\ ~FlagSet("process_only_profession_course")
                  /\ FlagSet("process_only_profession_skills") ->
                    "analysis_to_profession"
               [] /\ ~FlagSet("process_only_profession_course")
                  /\ ~FlagSet("process_only_profession_skills")
                  /\ FlagSet("process_only_vacancy_course") ->
                    "course_to_vacancy"
               [] /\ ~FlagSet("process_only_profession_course")
                  /\ ~FlagSet("process_only_profession_skills")
                  /\ ~FlagSet("process_only_vacancy_course")
                  /\ FlagSet("process_only_vacancy_skills") ->
                    "analysis_to_vacancy"
               [] /\ \A key \in FlowFlags \ {"create_user_embedding"} :
                        ~FlagSet(key)
                  /\ FlagSet("create_user_embedding") ->
                    "update_profile"
               [] OTHER -> "first_login"

\* a profession flag and a vacancy flag are both set, with
\* create_user_embedding: the profession flow wins
C33_Witness ==
    /\ Applied("determine_flow")
    /\ call.request_data["process_only_profession_course"] = "False"
    /\ FlagSet("process_only_profession_skills")
    /\ FlagSet("process_only_vacancy_course")
    /\ FlagSet("create_user_embedding")
    /\ call.value.flow_name = "analysis_to_profession"

\* a is b without some of its elements, in the same order
RECURSIVE IsSubsequence(_, _)
IsSubsequence(a, b) ==
    IF a = <<>> THEN TRUE
    ELSE IF b = <<>> THEN FALSE
    ELSE IF Head(a) = Head(b) THEN IsSubsequence(Tail(a), Tail(b))
    ELSE IsSubsequence(a, Tail(b))

\* C34: with process_vacancy_orchestrator false the result of
\* filter_steps_by_context holds no vacancy step of the catalog, with
\* process_profession_orchestrator false no profession step of the catalog;
\* the result is an order-preserving subsequence of the flow's steps and is
\* the flow's steps when both flags are true.
C34_FilterRemovesFlaggedSteps ==
    Applied("filter_steps_by_context") =>
        LET kept == {call.value[i].name : i \in 1..Len(call.value)} IN
        /\ call.request_data["process_vacancy_orchestrator"] = "False" =>
              kept \cap CatalogVacancySteps = {}
        /\ call.request_data["process_profession_orchestrator"] = "False" =>
              kept \cap CatalogProfessionSteps = {}
        /\ IsSubsequence(call.value, call.steps)
        /\ (\A key \in FilterFlags : call.request_data[key] = "True") =>
              call.value = call.steps

\* the request of the call of handle_request that is followed fails the
\* validation: user_id or session_id missing or not a text, a flag that is
\* not a boolean, a token given that is not a text
FailsValidation ==
    \/ call.request_data["user_id"] \notin {"empty", "value"}
    \/ call.request_data["session_id"] \notin {"empty", "value"}
    \/ \E i \in 1..Len(boolean_fields) :
          call.request_data[boolean_fields[i]]
              \notin {Absent, "False", "True"}
    \/ \E i \in 1..Len(token_fields) :
          call.request_data[token_fields[i]]
              \notin {Absent, None, "empty", "value"}

\* the request of the call that is followed passes the validation and the
\* steps of its flow are all filtered out
FilteredEmpty ==
    /\ ~FailsValidation
    /\ call.request_data["user_id"] = "value"
    /\ call.request_data["session_id"] = "value"
    /\ filter_steps_by_context(FlowSteps(determine_flow(call.request_data)),
                               call.request_data) = <<>>

\* C35: a request that fails validation is answered 400 with the list of
\* errors, no ExecutionContext is created and no step is dispatched; a
\* request whose filtered list of steps is empty is answered 200 and no step
\* is dispatched.
C35_RejectedWithoutDispatch ==
    Applied("handle_request") =>
        /\ FailsValidation =>
              /\ call.value.status_code = 400
              /\ Len(call.value.body.errors) >= 1
              /\ ~call.value.context_created
              /\ call.value.dispatched = <<>>
        /\ (FilteredEmpty /\ call.fault_at = "none") =>
              /\ call.value.status_code = 200
              /\ call.value.dispatched = <<>>

\* a request whose only fault is a token that is a number was answered 400
C35_Witness ==
    /\ Applied("handle_request")
    /\ call.request_data["user_id"] = "value"
    /\ call.request_data["session_id"] = "value"
    /\ call.request_data["match_candidato_token"] = "number"
    /\ \A i \in 1..Len(boolean_fields) :
          call.request_data[boolean_fields[i]] \in {Absent, "False", "True"}
    /\ call.value.status_code = 400
    /\ Len(call.value.body.errors) = 1

Checked == handler.last.called /\ handler.last.result.duplicate # Absent

\* the key of the last request handled
LastKey ==
    request_key(handler.last.request_data["user_id"],
                handler.last.request_data["session_id"],
                handler.last.request_data)

\* the key of the last request handled was registered less than the TTL
\* before the request
RegisteredRecently ==
    /\ LastKey \in DOMAIN handler.last.tracker_before
    /\ handler.last.time - handler.last.tracker_before[LastKey]
          < execution_tracker_ttl

\* C37: a request whose key was registered less than 300 seconds earlier is
\* detected as a duplicate and its flow is not executed a second time.
C37_DuplicateNotExecuted ==
    (Checked /\ RegisteredRecently) =>
        /\ handler.last.result.duplicate = "True"
        /\ handler.last.result.dispatched = <<>>

====
